---------------------------- MODULE Spec2Model ----------------------------
(***************************************************************************)
(* Da Tong Zi rules engine: the pattern recognizer (PatternRecognizer),    *)
(* the play validator (PlayValidator) and the greedy hand decomposer       *)
(* (HandPatternAnalyzer), modelled from the Python sources.                *)
(*                                                                         *)
(* A card list is a sequence of cards; Python's None in place of a card    *)
(* list is the one-element sequence NoneCards, whose marker card has suit  *)
(* 0 and rank 0 (no real card has them).  Python's None in place of a      *)
(* PlayPattern is the record None, whose play_type is 0.                   *)
(***************************************************************************)
EXTENDS Integers, Sequences, FiniteSets, TLC

(***************************************************************************)
(* models/card.py: Suit and Rank are IntEnums, a Card is a frozen pair.    *)
(***************************************************************************)
DIAMONDS == 1
CLUBS == 2
HEARTS == 3
SPADES == 4
Suit == <<DIAMONDS, CLUBS, HEARTS, SPADES>>

FIVE == 5
SIX == 6
SEVEN == 7
EIGHT == 8
NINE == 9
TEN == 10
JACK == 11
QUEEN == 12
KING == 13
ACE == 14
TWO == 15
Rank == <<FIVE, SIX, SEVEN, EIGHT, NINE, TEN, JACK, QUEEN, KING, ACE, TWO>>

Card(suit, rank) == [suit |-> suit, rank |-> rank]

\* Card.score_value
score_value(card) ==
  IF card.rank = FIVE THEN 5
  ELSE IF card.rank \in {TEN, KING} THEN 10
  ELSE 0

(***************************************************************************)
(* patterns/recognizer.py: PlayType and PlayPattern.                       *)
(***************************************************************************)
SINGLE == 1
PAIR == 2
CONSECUTIVE_PAIRS == 3
TRIPLE == 4
TRIPLE_WITH_TWO == 5
AIRPLANE == 6
AIRPLANE_WITH_WINGS == 7
BOMB == 8
TONGZI == 9
DIZHA == 10

\* PlayPattern(...); primary_suit 0 is Python's None, secondary_ranks
\* defaults to the empty list (__post_init__).
PlayPattern(play_type, primary_rank, primary_suit, secondary_ranks, card_count, strength) ==
  [play_type |-> play_type, primary_rank |-> primary_rank,
   primary_suit |-> primary_suit, secondary_ranks |-> secondary_ranks,
   card_count |-> card_count, strength |-> strength]

\* Python's None where a PlayPattern is expected.
None == PlayPattern(0, 0, 0, <<>>, 0, 0)

\* Python's None where a card list is expected.
NoneCards == <<Card(0, 0)>>

\* Body applied to the value of v (v is evaluated once).
Let(v, Body(_)) == CHOOSE y \in {Body(x) : x \in {v}} : TRUE

\* `not cards`: true of None and of the empty list.
Falsy(cards) == cards = NoneCards \/ Len(cards) = 0

(***************************************************************************)
(* collections.Counter / dict: the keys keep the order of first insertion. *)
(***************************************************************************)
\* The distinct elements of seq, in order of first occurrence.
Keys(seq) ==
  LET F[i \in 0..Len(seq)] ==
        IF i = 0 THEN <<>>
        ELSE LET prev == F[i - 1]
             IN IF \E j \in 1..Len(prev) : prev[j] = seq[i]
                THEN prev
                ELSE Append(prev, seq[i])
  IN F[Len(seq)]

\* Counter(seq)[k]
Count(seq, k) == Cardinality({i \in 1..Len(seq) : seq[i] = k})

RangeOf(seq) == {seq[i] : i \in 1..Len(seq)}

\* Counter(card.rank for card in cards): keys in insertion order, counts.
RankCounts(cards) ==
  LET ranks == [i \in 1..Len(cards) |-> cards[i].rank]
  IN [keys |-> Keys(ranks), n |-> [r \in RangeOf(ranks) |-> Count(ranks, r)]]

\* Counter((card.suit, card.rank) for card in cards)
SuitRankCounts(cards) ==
  LET sr == [i \in 1..Len(cards) |-> <<cards[i].suit, cards[i].rank>>]
  IN [keys |-> Keys(sr), n |-> [k \in RangeOf(sr) |-> Count(sr, k)]]

\* A faulty sorted: the ranks stay in the order they came in.
sorted_unsorted(ranks) == ranks

\* sorted(ranks, key=lambda r: r.value): stable insertion into ascending order.
RECURSIVE sorted(_)
sorted(ranks) ==
  IF Len(ranks) = 0 THEN <<>>
  ELSE LET init == sorted(SubSeq(ranks, 1, Len(ranks) - 1))
           x == ranks[Len(ranks)]
           k == Cardinality({i \in 1..Len(init) : init[i] <= x})
       IN SubSeq(init, 1, k) \o <<x>> \o SubSeq(init, k + 1, Len(init))

\* A faulty _are_consecutive: rank 2 counts as the neighbour below rank 5.
_are_consecutive_cyclic(ranks) ==
  IF Len(ranks) <= 1 THEN TRUE
  ELSE \A i \in 2..Len(ranks) :
         \/ ranks[i] = ranks[i-1] + 1
         \/ ranks[i-1] = FIVE /\ ranks[i] = TWO

\* PatternRecognizer._are_consecutive
_are_consecutive(ranks) ==
  IF Len(ranks) <= 1 THEN TRUE
  ELSE \A i \in 2..Len(ranks) : ranks[i] = ranks[i-1] + 1

\* PatternRecognizer._check_single
_check_single(cards, rank_counts) ==
  IF Len(cards) # 1 THEN None
  ELSE PlayPattern(SINGLE, cards[1].rank, cards[1].suit, <<>>, 1, cards[1].rank)

\* PatternRecognizer._check_pair
_check_pair(cards, rank_counts) ==
  IF Len(cards) # 2 \/ Len(rank_counts.keys) # 1 THEN None
  ELSE LET rank == rank_counts.keys[1]
       IN IF rank_counts.n[rank] # 2 THEN None
          ELSE PlayPattern(PAIR, rank, 0, <<>>, 2, rank)

\* A faulty _check_consecutive_pairs: a rank may have more than two cards.
_check_consecutive_pairs_at_least_two(cards, rank_counts) ==
  IF Len(cards) < 4 \/ Len(cards) % 2 # 0 THEN None
  ELSE IF \E r \in DOMAIN rank_counts.n : rank_counts.n[r] < 2 THEN None
  ELSE LET ranks == sorted(rank_counts.keys)
       IN IF ~_are_consecutive(ranks) THEN None
          ELSE PlayPattern(CONSECUTIVE_PAIRS, ranks[Len(ranks)], 0, ranks,
                           Len(cards), ranks[Len(ranks)] * 1000 + Len(ranks))

\* PatternRecognizer._check_consecutive_pairs
_check_consecutive_pairs(cards, rank_counts) ==
  IF Len(cards) < 4 \/ Len(cards) % 2 # 0 THEN None
  ELSE IF \E r \in DOMAIN rank_counts.n : rank_counts.n[r] # 2 THEN None
  ELSE LET ranks == sorted(rank_counts.keys)
       IN IF ~_are_consecutive(ranks) THEN None
          ELSE PlayPattern(CONSECUTIVE_PAIRS, ranks[Len(ranks)], 0, ranks,
                           Len(cards), ranks[Len(ranks)] * 1000 + Len(ranks))

\* PatternRecognizer._check_triple
_check_triple(cards, rank_counts) ==
  IF Len(cards) # 3 \/ Len(rank_counts.keys) # 1 THEN None
  ELSE LET rank == rank_counts.keys[1]
       IN IF rank_counts.n[rank] # 3 THEN None
          ELSE PlayPattern(TRIPLE, rank, 0, <<>>, 3, rank)

\* PatternRecognizer._check_triple_with_two: the triple rank is the first key
\* (in insertion order) whose count is 3.
_check_triple_with_two(cards, rank_counts) ==
  IF Len(cards) # 5 \/ Len(rank_counts.keys) # 2 THEN None
  ELSE LET counts == {rank_counts.n[r] : r \in DOMAIN rank_counts.n}
           threes == SelectSeq(rank_counts.keys, LAMBDA r : rank_counts.n[r] = 3)
       IN IF ~(3 \in counts /\ 2 \in counts) THEN None
          ELSE IF Len(threes) = 0 THEN None
          ELSE PlayPattern(TRIPLE_WITH_TWO, threes[1], 0, <<>>, 5, threes[1])

\* A faulty _check_airplane: only two triples make an airplane.
_check_airplane_two_triples(cards, rank_counts) ==
  IF Len(cards) # 6 THEN None
  ELSE IF \E r \in DOMAIN rank_counts.n : rank_counts.n[r] # 3 THEN None
  ELSE LET ranks == sorted(rank_counts.keys)
       IN IF ~_are_consecutive(ranks) THEN None
          ELSE PlayPattern(AIRPLANE, ranks[Len(ranks)], 0, ranks,
                           Len(cards), ranks[Len(ranks)] * 1000 + Len(ranks))

\* PatternRecognizer._check_airplane
_check_airplane(cards, rank_counts) ==
  IF Len(cards) < 6 \/ Len(cards) % 3 # 0 THEN None
  ELSE IF \E r \in DOMAIN rank_counts.n : rank_counts.n[r] # 3 THEN None
  ELSE LET ranks == sorted(rank_counts.keys)
       IN IF ~_are_consecutive(ranks) THEN None
          ELSE PlayPattern(AIRPLANE, ranks[Len(ranks)], 0, ranks,
                           Len(cards), ranks[Len(ranks)] * 1000 + Len(ranks))

\* A faulty WingFits: the lower bound N <= wings is not checked.
WingFitsNoLowerBound(cards, sorted_candidates) ==
  {w \in (2..Len(sorted_candidates)) \X (1..Len(sorted_candidates)) :
     /\ w[2] + w[1] - 1 <= Len(sorted_candidates)
     /\ _are_consecutive(SubSeq(sorted_candidates, w[2], w[2] + w[1] - 1))
     /\ Len(cards) - 3 * w[1] <= 2 * w[1]}

\* The (length, start) pairs of the double loop of _check_airplane_with_wings
\* whose slice is consecutive and whose wing count fits N <= wings <= 2N.
WingFits(cards, sorted_candidates) ==
  {w \in (2..Len(sorted_candidates)) \X (1..Len(sorted_candidates)) :
     /\ w[2] + w[1] - 1 <= Len(sorted_candidates)
     /\ _are_consecutive(SubSeq(sorted_candidates, w[2], w[2] + w[1] - 1))
     /\ w[1] <= Len(cards) - 3 * w[1]
     /\ Len(cards) - 3 * w[1] <= 2 * w[1]}

\* The first fitting slice in loop order: longest length first, then
\* leftmost start.
FirstFit(fits) ==
  CHOOSE w \in fits : \A v \in fits : v[1] < w[1] \/ (v[1] = w[1] /\ v[2] >= w[2])

\* A faulty _check_airplane_with_wings: a rank with two cards is a body
\* candidate.
_check_airplane_with_wings_pair_body(cards, rank_counts) ==
  IF Len(cards) < 8 THEN None
  ELSE LET triple_candidates == SelectSeq(rank_counts.keys, LAMBDA r : rank_counts.n[r] >= 2)
       IN IF Len(triple_candidates) < 2 THEN None
          ELSE LET sorted_candidates == sorted(triple_candidates)
                   fits == WingFits(cards, sorted_candidates)
               IN IF fits = {} THEN None
                  ELSE LET w == FirstFit(fits)
                           candidate_ranks == SubSeq(sorted_candidates, w[2], w[2] + w[1] - 1)
                       IN PlayPattern(AIRPLANE_WITH_WINGS, candidate_ranks[Len(candidate_ranks)],
                                      0, candidate_ranks, Len(cards),
                                      candidate_ranks[Len(candidate_ranks)] * 1000
                                        + Len(candidate_ranks))

\* PatternRecognizer._check_airplane_with_wings
_check_airplane_with_wings(cards, rank_counts) ==
  IF Len(cards) < 8 THEN None
  ELSE LET triple_candidates == SelectSeq(rank_counts.keys, LAMBDA r : rank_counts.n[r] >= 3)
       IN IF Len(triple_candidates) < 2 THEN None
          ELSE LET sorted_candidates == sorted(triple_candidates)
                   fits == WingFits(cards, sorted_candidates)
               IN IF fits = {} THEN None
                  ELSE LET w == FirstFit(fits)
                           candidate_ranks == SubSeq(sorted_candidates, w[2], w[2] + w[1] - 1)
                       IN PlayPattern(AIRPLANE_WITH_WINGS, candidate_ranks[Len(candidate_ranks)],
                                      0, candidate_ranks, Len(cards),
                                      candidate_ranks[Len(candidate_ranks)] * 1000
                                        + Len(candidate_ranks))

\* PatternRecognizer._check_bomb
_check_bomb(cards, rank_counts) ==
  IF Len(cards) < 4 \/ Len(rank_counts.keys) # 1 THEN None
  ELSE LET rank == rank_counts.keys[1]
           count == rank_counts.n[rank]
       IN IF count < 4 THEN None
          ELSE PlayPattern(BOMB, rank, 0, <<>>, count, rank * 1000 + count)

\* PatternRecognizer._check_tongzi
_check_tongzi(cards, suit_rank_counts, rank_counts) ==
  IF Len(cards) # 3 \/ Len(rank_counts.keys) # 1 THEN None
  ELSE IF Len(suit_rank_counts.keys) # 1
          \/ suit_rank_counts.n[suit_rank_counts.keys[1]] # 3 THEN None
  ELSE LET suit == suit_rank_counts.keys[1][1]
           rank == suit_rank_counts.keys[1][2]
       IN PlayPattern(TONGZI, rank, suit, <<>>, 3, rank * 10000 + suit * 1000)

\* PatternRecognizer._check_dizha
_check_dizha(cards, suit_rank_counts, rank_counts) ==
  IF Len(cards) # 8 \/ Len(rank_counts.keys) # 1 THEN None
  ELSE LET rank == rank_counts.keys[1]
           suits_for_rank == SelectSeq(suit_rank_counts.keys, LAMBDA k : k[2] = rank)
           get(suit) == IF <<suit, rank>> \in DOMAIN suit_rank_counts.n
                        THEN suit_rank_counts.n[<<suit, rank>>] ELSE 0
       IN IF Len(suits_for_rank) # 4 THEN None
          ELSE IF \E i \in 1..Len(Suit) : get(Suit[i]) # 2 THEN None
          ELSE PlayPattern(DIZHA, rank, 0, <<>>, 8, rank * 100000)

\* A faulty analyze_cards: AIRPLANE_WITH_WINGS is tried before AIRPLANE.
analyze_cards_wings_first(card_list) ==
  Let(card_list, LAMBDA cards :
  IF Falsy(cards) THEN None
  ELSE LET rank_counts == RankCounts(cards)
           suit_rank_counts == SuitRankCounts(cards)
           dizha == _check_dizha(cards, suit_rank_counts, rank_counts)
           tongzi == _check_tongzi(cards, suit_rank_counts, rank_counts)
           bomb == _check_bomb(cards, rank_counts)
           airplane == _check_airplane(cards, rank_counts)
           wings == _check_airplane_with_wings(cards, rank_counts)
           triple_with_two == _check_triple_with_two(cards, rank_counts)
           triple == _check_triple(cards, rank_counts)
           consecutive_pairs == _check_consecutive_pairs(cards, rank_counts)
           pair == _check_pair(cards, rank_counts)
           single == _check_single(cards, rank_counts)
       IN IF dizha # None THEN dizha
          ELSE IF tongzi # None THEN tongzi
          ELSE IF bomb # None THEN bomb
          ELSE IF wings # None THEN wings
          ELSE IF airplane # None THEN airplane
          ELSE IF triple_with_two # None THEN triple_with_two
          ELSE IF triple # None THEN triple
          ELSE IF consecutive_pairs # None THEN consecutive_pairs
          ELSE IF pair # None THEN pair
          ELSE IF single # None THEN single
          ELSE None)

\* A faulty analyze_cards: the `if not cards` guard is missing.
analyze_cards_unguarded(card_list) ==
  Let(card_list, LAMBDA cards :
  LET rank_counts == RankCounts(cards)
      suit_rank_counts == SuitRankCounts(cards)
      dizha == _check_dizha(cards, suit_rank_counts, rank_counts)
      tongzi == _check_tongzi(cards, suit_rank_counts, rank_counts)
      bomb == _check_bomb(cards, rank_counts)
      airplane == _check_airplane(cards, rank_counts)
      wings == _check_airplane_with_wings(cards, rank_counts)
      triple_with_two == _check_triple_with_two(cards, rank_counts)
      triple == _check_triple(cards, rank_counts)
      consecutive_pairs == _check_consecutive_pairs(cards, rank_counts)
      pair == _check_pair(cards, rank_counts)
      single == _check_single(cards, rank_counts)
  IN IF dizha # None THEN dizha
     ELSE IF tongzi # None THEN tongzi
     ELSE IF bomb # None THEN bomb
     ELSE IF airplane # None THEN airplane
     ELSE IF wings # None THEN wings
     ELSE IF triple_with_two # None THEN triple_with_two
     ELSE IF triple # None THEN triple
     ELSE IF consecutive_pairs # None THEN consecutive_pairs
     ELSE IF pair # None THEN pair
     ELSE IF single # None THEN single
     ELSE None)

\* PatternRecognizer.analyze_cards: the checks in the order the code runs
\* them (pure AIRPLANE before AIRPLANE_WITH_WINGS); the first pattern found
\* is returned.  sorted_cards only feeds the debug log.
analyze_cards(card_list) ==
  Let(card_list, LAMBDA cards :
  IF Falsy(cards) THEN None
  ELSE LET rank_counts == RankCounts(cards)
           suit_rank_counts == SuitRankCounts(cards)
           dizha == _check_dizha(cards, suit_rank_counts, rank_counts)
           tongzi == _check_tongzi(cards, suit_rank_counts, rank_counts)
           bomb == _check_bomb(cards, rank_counts)
           airplane == _check_airplane(cards, rank_counts)
           wings == _check_airplane_with_wings(cards, rank_counts)
           triple_with_two == _check_triple_with_two(cards, rank_counts)
           triple == _check_triple(cards, rank_counts)
           consecutive_pairs == _check_consecutive_pairs(cards, rank_counts)
           pair == _check_pair(cards, rank_counts)
           single == _check_single(cards, rank_counts)
       IN IF dizha # None THEN dizha
          ELSE IF tongzi # None THEN tongzi
          ELSE IF bomb # None THEN bomb
          ELSE IF airplane # None THEN airplane
          ELSE IF wings # None THEN wings
          ELSE IF triple_with_two # None THEN triple_with_two
          ELSE IF triple # None THEN triple
          ELSE IF consecutive_pairs # None THEN consecutive_pairs
          ELSE IF pair # None THEN pair
          ELSE IF single # None THEN single
          ELSE None)

(***************************************************************************)
(* PlayValidator                                                           *)
(***************************************************************************)
\* A faulty _compare_patterns: a Dizha also beats a Dizha of its own rank.
_compare_patterns_dizha_ge(new_pattern, current_pattern) ==
  IF new_pattern.play_type = DIZHA THEN
    IF current_pattern.play_type # DIZHA THEN TRUE
    ELSE new_pattern.primary_rank >= current_pattern.primary_rank
  ELSE IF current_pattern.play_type = DIZHA THEN FALSE
  ELSE IF new_pattern.play_type = TONGZI THEN
    IF current_pattern.play_type = BOMB THEN TRUE
    ELSE IF current_pattern.play_type # TONGZI THEN FALSE
    ELSE IF new_pattern.primary_rank > current_pattern.primary_rank THEN TRUE
    ELSE IF new_pattern.primary_rank = current_pattern.primary_rank THEN
      IF new_pattern.primary_suit # 0 /\ current_pattern.primary_suit # 0
      THEN new_pattern.primary_suit > current_pattern.primary_suit
      ELSE FALSE
    ELSE FALSE
  ELSE IF current_pattern.play_type = TONGZI THEN FALSE
  ELSE IF new_pattern.play_type = BOMB THEN
    IF current_pattern.play_type # BOMB THEN TRUE
    ELSE IF new_pattern.primary_rank > current_pattern.primary_rank THEN TRUE
    ELSE IF new_pattern.primary_rank = current_pattern.primary_rank
      THEN new_pattern.card_count > current_pattern.card_count
    ELSE FALSE
  ELSE IF current_pattern.play_type = BOMB THEN FALSE
  ELSE IF new_pattern.play_type # current_pattern.play_type THEN FALSE
  ELSE IF /\ new_pattern.play_type \in {CONSECUTIVE_PAIRS, AIRPLANE, AIRPLANE_WITH_WINGS}
          /\ Len(new_pattern.secondary_ranks) # Len(current_pattern.secondary_ranks)
       THEN FALSE
  ELSE new_pattern.strength > current_pattern.strength


\* A faulty _compare_patterns: Tongzi of one rank are never told apart by suit.
_compare_patterns_tongzi_rank_only(new_pattern, current_pattern) ==
  IF new_pattern.play_type = DIZHA THEN
    IF current_pattern.play_type # DIZHA THEN TRUE
    ELSE new_pattern.primary_rank > current_pattern.primary_rank
  ELSE IF current_pattern.play_type = DIZHA THEN FALSE
  ELSE IF new_pattern.play_type = TONGZI THEN
    IF current_pattern.play_type = BOMB THEN TRUE
    ELSE IF current_pattern.play_type # TONGZI THEN FALSE
    ELSE IF new_pattern.primary_rank > current_pattern.primary_rank THEN TRUE
    ELSE IF new_pattern.primary_rank = current_pattern.primary_rank THEN
      IF new_pattern.primary_suit # 0 /\ current_pattern.primary_suit # 0
      THEN FALSE
      ELSE FALSE
    ELSE FALSE
  ELSE IF current_pattern.play_type = TONGZI THEN FALSE
  ELSE IF new_pattern.play_type = BOMB THEN
    IF current_pattern.play_type # BOMB THEN TRUE
    ELSE IF new_pattern.primary_rank > current_pattern.primary_rank THEN TRUE
    ELSE IF new_pattern.primary_rank = current_pattern.primary_rank
      THEN new_pattern.card_count > current_pattern.card_count
    ELSE FALSE
  ELSE IF current_pattern.play_type = BOMB THEN FALSE
  ELSE IF new_pattern.play_type # current_pattern.play_type THEN FALSE
  ELSE IF /\ new_pattern.play_type \in {CONSECUTIVE_PAIRS, AIRPLANE, AIRPLANE_WITH_WINGS}
          /\ Len(new_pattern.secondary_ranks) # Len(current_pattern.secondary_ranks)
       THEN FALSE
  ELSE new_pattern.strength > current_pattern.strength


\* A faulty _compare_patterns: Bombs compare by card count first, then rank.
_compare_patterns_bomb_count_first(new_pattern, current_pattern) ==
  IF new_pattern.play_type = DIZHA THEN
    IF current_pattern.play_type # DIZHA THEN TRUE
    ELSE new_pattern.primary_rank > current_pattern.primary_rank
  ELSE IF current_pattern.play_type = DIZHA THEN FALSE
  ELSE IF new_pattern.play_type = TONGZI THEN
    IF current_pattern.play_type = BOMB THEN TRUE
    ELSE IF current_pattern.play_type # TONGZI THEN FALSE
    ELSE IF new_pattern.primary_rank > current_pattern.primary_rank THEN TRUE
    ELSE IF new_pattern.primary_rank = current_pattern.primary_rank THEN
      IF new_pattern.primary_suit # 0 /\ current_pattern.primary_suit # 0
      THEN new_pattern.primary_suit > current_pattern.primary_suit
      ELSE FALSE
    ELSE FALSE
  ELSE IF current_pattern.play_type = TONGZI THEN FALSE
  ELSE IF new_pattern.play_type = BOMB THEN
    IF current_pattern.play_type # BOMB THEN TRUE
    ELSE IF new_pattern.card_count > current_pattern.card_count THEN TRUE
    ELSE IF new_pattern.card_count = current_pattern.card_count
      THEN new_pattern.primary_rank > current_pattern.primary_rank
    ELSE FALSE
  ELSE IF current_pattern.play_type = BOMB THEN FALSE
  ELSE IF new_pattern.play_type # current_pattern.play_type THEN FALSE
  ELSE IF /\ new_pattern.play_type \in {CONSECUTIVE_PAIRS, AIRPLANE, AIRPLANE_WITH_WINGS}
          /\ Len(new_pattern.secondary_ranks) # Len(current_pattern.secondary_ranks)
       THEN FALSE
  ELSE new_pattern.strength > current_pattern.strength


\* A faulty _compare_patterns: chains of different lengths are compared.
_compare_patterns_any_length(new_pattern, current_pattern) ==
  IF new_pattern.play_type = DIZHA THEN
    IF current_pattern.play_type # DIZHA THEN TRUE
    ELSE new_pattern.primary_rank > current_pattern.primary_rank
  ELSE IF current_pattern.play_type = DIZHA THEN FALSE
  ELSE IF new_pattern.play_type = TONGZI THEN
    IF current_pattern.play_type = BOMB THEN TRUE
    ELSE IF current_pattern.play_type # TONGZI THEN FALSE
    ELSE IF new_pattern.primary_rank > current_pattern.primary_rank THEN TRUE
    ELSE IF new_pattern.primary_rank = current_pattern.primary_rank THEN
      IF new_pattern.primary_suit # 0 /\ current_pattern.primary_suit # 0
      THEN new_pattern.primary_suit > current_pattern.primary_suit
      ELSE FALSE
    ELSE FALSE
  ELSE IF current_pattern.play_type = TONGZI THEN FALSE
  ELSE IF new_pattern.play_type = BOMB THEN
    IF current_pattern.play_type # BOMB THEN TRUE
    ELSE IF new_pattern.primary_rank > current_pattern.primary_rank THEN TRUE
    ELSE IF new_pattern.primary_rank = current_pattern.primary_rank
      THEN new_pattern.card_count > current_pattern.card_count
    ELSE FALSE
  ELSE IF current_pattern.play_type = BOMB THEN FALSE
  ELSE IF new_pattern.play_type # current_pattern.play_type THEN FALSE
  ELSE new_pattern.strength > current_pattern.strength


\* A faulty _compare_patterns: a current Tongzi is not closed to lower types.
_compare_patterns_bomb_over_tongzi(new_pattern, current_pattern) ==
  IF new_pattern.play_type = DIZHA THEN
    IF current_pattern.play_type # DIZHA THEN TRUE
    ELSE new_pattern.primary_rank > current_pattern.primary_rank
  ELSE IF current_pattern.play_type = DIZHA THEN FALSE
  ELSE IF new_pattern.play_type = TONGZI THEN
    IF current_pattern.play_type = BOMB THEN TRUE
    ELSE IF current_pattern.play_type # TONGZI THEN FALSE
    ELSE IF new_pattern.primary_rank > current_pattern.primary_rank THEN TRUE
    ELSE IF new_pattern.primary_rank = current_pattern.primary_rank THEN
      IF new_pattern.primary_suit # 0 /\ current_pattern.primary_suit # 0
      THEN new_pattern.primary_suit > current_pattern.primary_suit
      ELSE FALSE
    ELSE FALSE
  ELSE IF new_pattern.play_type = BOMB THEN
    IF current_pattern.play_type # BOMB THEN TRUE
    ELSE IF new_pattern.primary_rank > current_pattern.primary_rank THEN TRUE
    ELSE IF new_pattern.primary_rank = current_pattern.primary_rank
      THEN new_pattern.card_count > current_pattern.card_count
    ELSE FALSE
  ELSE IF current_pattern.play_type = BOMB THEN FALSE
  ELSE IF new_pattern.play_type # current_pattern.play_type THEN FALSE
  ELSE IF /\ new_pattern.play_type \in {CONSECUTIVE_PAIRS, AIRPLANE, AIRPLANE_WITH_WINGS}
          /\ Len(new_pattern.secondary_ranks) # Len(current_pattern.secondary_ranks)
       THEN FALSE
  ELSE new_pattern.strength > current_pattern.strength


\* A faulty _compare_patterns: equal strength is enough to beat.
_compare_patterns_strength_ge(new_pattern, current_pattern) ==
  IF new_pattern.play_type = DIZHA THEN
    IF current_pattern.play_type # DIZHA THEN TRUE
    ELSE new_pattern.primary_rank > current_pattern.primary_rank
  ELSE IF current_pattern.play_type = DIZHA THEN FALSE
  ELSE IF new_pattern.play_type = TONGZI THEN
    IF current_pattern.play_type = BOMB THEN TRUE
    ELSE IF current_pattern.play_type # TONGZI THEN FALSE
    ELSE IF new_pattern.primary_rank > current_pattern.primary_rank THEN TRUE
    ELSE IF new_pattern.primary_rank = current_pattern.primary_rank THEN
      IF new_pattern.primary_suit # 0 /\ current_pattern.primary_suit # 0
      THEN new_pattern.primary_suit > current_pattern.primary_suit
      ELSE FALSE
    ELSE FALSE
  ELSE IF current_pattern.play_type = TONGZI THEN FALSE
  ELSE IF new_pattern.play_type = BOMB THEN
    IF current_pattern.play_type # BOMB THEN TRUE
    ELSE IF new_pattern.primary_rank > current_pattern.primary_rank THEN TRUE
    ELSE IF new_pattern.primary_rank = current_pattern.primary_rank
      THEN new_pattern.card_count > current_pattern.card_count
    ELSE FALSE
  ELSE IF current_pattern.play_type = BOMB THEN FALSE
  ELSE IF new_pattern.play_type # current_pattern.play_type THEN FALSE
  ELSE IF /\ new_pattern.play_type \in {CONSECUTIVE_PAIRS, AIRPLANE, AIRPLANE_WITH_WINGS}
          /\ Len(new_pattern.secondary_ranks) # Len(current_pattern.secondary_ranks)
       THEN FALSE
  ELSE new_pattern.strength >= current_pattern.strength

\* PlayValidator._compare_patterns
_compare_patterns(new_pattern, current_pattern) ==
  IF new_pattern.play_type = DIZHA THEN
    IF current_pattern.play_type # DIZHA THEN TRUE
    ELSE new_pattern.primary_rank > current_pattern.primary_rank
  ELSE IF current_pattern.play_type = DIZHA THEN FALSE
  ELSE IF new_pattern.play_type = TONGZI THEN
    IF current_pattern.play_type = BOMB THEN TRUE
    ELSE IF current_pattern.play_type # TONGZI THEN FALSE
    ELSE IF new_pattern.primary_rank > current_pattern.primary_rank THEN TRUE
    ELSE IF new_pattern.primary_rank = current_pattern.primary_rank THEN
      IF new_pattern.primary_suit # 0 /\ current_pattern.primary_suit # 0
      THEN new_pattern.primary_suit > current_pattern.primary_suit
      ELSE FALSE
    ELSE FALSE
  ELSE IF current_pattern.play_type = TONGZI THEN FALSE
  ELSE IF new_pattern.play_type = BOMB THEN
    IF current_pattern.play_type # BOMB THEN TRUE
    ELSE IF new_pattern.primary_rank > current_pattern.primary_rank THEN TRUE
    ELSE IF new_pattern.primary_rank = current_pattern.primary_rank
      THEN new_pattern.card_count > current_pattern.card_count
    ELSE FALSE
  ELSE IF current_pattern.play_type = BOMB THEN FALSE
  ELSE IF new_pattern.play_type # current_pattern.play_type THEN FALSE
  ELSE IF /\ new_pattern.play_type \in {CONSECUTIVE_PAIRS, AIRPLANE, AIRPLANE_WITH_WINGS}
          /\ Len(new_pattern.secondary_ranks) # Len(current_pattern.secondary_ranks)
       THEN FALSE
  ELSE new_pattern.strength > current_pattern.strength

\* A faulty can_beat_play: on an unopened round the cards are not recognized.
can_beat_play_open(new_cards, current_play) ==
  IF current_play = None THEN TRUE
  ELSE LET new_pattern == analyze_cards(new_cards)
       IN IF new_pattern = None THEN FALSE
          ELSE _compare_patterns(new_pattern, current_play)

\* PlayValidator.can_beat_play
can_beat_play(new_cards, current_play) ==
  IF current_play = None THEN analyze_cards(new_cards) # None
  ELSE LET new_pattern == analyze_cards(new_cards)
       IN IF new_pattern = None THEN FALSE
          ELSE _compare_patterns(new_pattern, current_play)

(***************************************************************************)
(* ai_helpers/hand_pattern_analyzer.py: HandPatternAnalyzer.               *)
(***************************************************************************)
\* HandPatterns(total_cards=n): every bucket empty.
HandPatterns(total_cards) ==
  [dizha |-> <<>>, tongzi |-> <<>>, bombs |-> <<>>, airplane_chains |-> <<>>,
   triples |-> <<>>, consecutive_pair_chains |-> <<>>, pairs |-> <<>>,
   singles |-> <<>>, total_cards |-> total_cards, trump_count |-> 0,
   has_control_cards |-> FALSE]

\* The index of the first element of list equal to x; 0 when there is none.
IndexOf(list, x) ==
  IF \E i \in 1..Len(list) : list[i] = x
  THEN CHOOSE i \in 1..Len(list) : list[i] = x /\ \A j \in 1..(i-1) : list[j] # x
  ELSE 0

\* list.remove(x) for an x that is in list: the first occurrence goes.
Remove(list, x) ==
  LET i == IndexOf(list, x)
  IN SubSeq(list, 1, i - 1) \o SubSeq(list, i + 1, Len(list))

\* group_1 + group_2 + ...
RECURSIVE Flatten(_)
Flatten(groups) ==
  IF Len(groups) = 0 THEN <<>> ELSE Head(groups) \o Flatten(Tail(groups))

\* for card in taken: remaining_cards.remove(card)
RECURSIVE RemoveAll(_, _)
RemoveAll(remaining_cards, taken) ==
  IF Len(taken) = 0 THEN remaining_cards
  ELSE RemoveAll(Remove(remaining_cards, Head(taken)), Tail(taken))

\* Whether one of those list.remove calls raises ValueError: some card is
\* taken more often than remaining_cards holds it.
RemoveRaises(remaining_cards, taken) ==
  \E i \in 1..Len(taken) : Count(taken, taken[i]) > Count(remaining_cards, taken[i])

\* list.sort(key=Key, reverse=True): stable, descending by a key that is a
\* tuple of one or two integers.
KeyGE(a, b) == a[1] > b[1] \/ (a[1] = b[1] /\ (Len(a) = 1 \/ a[2] >= b[2]))

SortDesc(list, Key(_)) ==
  LET F[n \in 0..Len(list)] ==
        IF n = 0 THEN <<>>
        ELSE LET init == F[n - 1]
                 x == list[n]
                 k == Cardinality({i \in 1..Len(init) : KeyGE(Key(init[i]), Key(x))})
             IN SubSeq(init, 1, k) \o <<x>> \o SubSeq(init, k + 1, Len(init))
  IN F[Len(list)]

\* rank_groups = defaultdict(list); rank_groups[card.rank].append(card):
\* the keys in insertion order, and the cards of one key in list order.
RankKeys(cards) == Keys([i \in 1..Len(cards) |-> cards[i].rank])

RankGroup(cards, rank) == SelectSeq(cards, LAMBDA c : c.rank = rank)

SuitGroup(cards, suit) == SelectSeq(cards, LAMBDA c : c.suit = suit)

\* list[:n]
Take(list, n) == SubSeq(list, 1, IF n < Len(list) THEN n ELSE Len(list))

\* [Group(k) for k in keys if Ok(k)]
Collect(keys, Ok(_), Group(_)) ==
  LET sel == SelectSeq(keys, Ok)
  IN [i \in 1..Len(sel) |-> Group(sel[i])]

\* HandPatternAnalyzer._find_dizha
_find_dizha(cards) ==
  LET dizha(rank) ==
        LET rank_cards == RankGroup(cards, rank)
        IN Flatten([i \in 1..Len(Suit) |-> Take(SuitGroup(rank_cards, Suit[i]), 2)])
      ok(rank) ==
        LET rank_cards == RankGroup(cards, rank)
        IN /\ Len(rank_cards) >= 8
           /\ \A i \in 1..Len(Suit) : Len(SuitGroup(rank_cards, Suit[i])) >= 2
           /\ analyze_cards(dizha(rank)).play_type = DIZHA
  IN Collect(RankKeys(cards), ok, dizha)

\* HandPatternAnalyzer._find_tongzi
_find_tongzi(cards) ==
  LET group_cards(key) == SelectSeq(cards, LAMBDA c : <<c.suit, c.rank>> = key)
      tongzi(key) == Take(group_cards(key), 3)
      ok(key) ==
        /\ Len(group_cards(key)) >= 3
        /\ analyze_cards(tongzi(key)).play_type = TONGZI
  IN Collect(Keys([i \in 1..Len(cards) |-> <<cards[i].suit, cards[i].rank>>]), ok, tongzi)

\* A faulty _find_bombs: the group is not passed to the recognizer.
_find_bombs_unvalidated(cards) ==
  LET bomb(rank) == RankGroup(cards, rank)
      ok(rank) == Len(RankGroup(cards, rank)) >= 4
  IN Collect(RankKeys(cards), ok, bomb)

\* HandPatternAnalyzer._find_bombs
_find_bombs(cards) ==
  LET bomb(rank) == RankGroup(cards, rank)
      ok(rank) ==
        /\ Len(RankGroup(cards, rank)) >= 4
        /\ analyze_cards(bomb(rank)).play_type = BOMB
  IN Collect(RankKeys(cards), ok, bomb)

\* HandPatternAnalyzer._find_triples
_find_triples(cards) ==
  LET triple(rank) == Take(RankGroup(cards, rank), 3)
      ok(rank) ==
        /\ Len(RankGroup(cards, rank)) >= 3
        /\ analyze_cards(triple(rank)).play_type = TRIPLE
  IN Collect(RankKeys(cards), ok, triple)

\* The last index of the run of consecutive ranks that starts at index i
\* (the inner while loop of the two chain finders).
RECURSIVE RunEnd(_, _)
RunEnd(valid_ranks, i) ==
  IF i < Len(valid_ranks) /\ valid_ranks[i + 1] = valid_ranks[i] + 1
  THEN RunEnd(valid_ranks, i + 1)
  ELSE i

\* The outer while loop of the two chain finders, from index i: per rank of a
\* run the first `per_rank` cards; a run is kept when the recognizer gives it
\* `play_type`, and the scan then continues after the run, else at i + 1.
RECURSIVE ChainScan(_, _, _, _, _)
ChainScan(cards, valid_ranks, i, per_rank, play_type) ==
  IF i > Len(valid_ranks) THEN <<>>
  ELSE LET e == RunEnd(valid_ranks, i)
           chain_ranks == SubSeq(valid_ranks, i, e)
           chain_cards ==
             Flatten([k \in 1..Len(chain_ranks) |->
                        Take(RankGroup(cards, chain_ranks[k]), per_rank)])
       IN IF Len(chain_ranks) >= 2
          THEN IF analyze_cards(chain_cards).play_type = play_type
               THEN <<chain_cards>> \o ChainScan(cards, valid_ranks, e + 1, per_rank, play_type)
               ELSE ChainScan(cards, valid_ranks, i + 1, per_rank, play_type)
          ELSE ChainScan(cards, valid_ranks, i + 1, per_rank, play_type)

\* HandPatternAnalyzer._find_airplane_chains
_find_airplane_chains(cards) ==
  LET valid_ranks ==
        sorted(SelectSeq(RankKeys(cards), LAMBDA r : Len(RankGroup(cards, r)) >= 3))
  IN ChainScan(cards, valid_ranks, 1, 3, AIRPLANE)

\* HandPatternAnalyzer._find_consecutive_pair_chains
_find_consecutive_pair_chains(cards) ==
  LET valid_ranks ==
        sorted(SelectSeq(RankKeys(cards), LAMBDA r : Len(RankGroup(cards, r)) >= 2))
  IN ChainScan(cards, valid_ranks, 1, 2, CONSECUTIVE_PAIRS)

\* A faulty extraction stage: the cards of the groups found stay in the
\* working list.
ExtractKeep(state, bucket, found) ==
  Let(<<state, found>>, LAMBDA a :
    LET st == a[1]
        groups == a[2]
    IN IF st.raised THEN st
       ELSE [st EXCEPT !.patterns[bucket] = st.patterns[bucket] \o groups])

\* One extraction stage on the working state st = [remaining, patterns,
\* raised]: the groups found go to `bucket`, their cards leave the working
\* list (ValueError when a card to remove is not there).
Extract(state, bucket, found) ==
  Let(<<state, found>>, LAMBDA a :
    LET st == a[1]
        groups == a[2]
        taken == Flatten(groups)
    IN IF st.raised THEN st
       ELSE IF RemoveRaises(st.remaining, taken)
       THEN [st EXCEPT !.raised = TRUE]
       ELSE [st EXCEPT !.remaining = RemoveAll(st.remaining, taken),
                       !.patterns[bucket] = st.patterns[bucket] \o groups])

\* HandPatternAnalyzer._extract_trump_cards
_extract_trump_cards(st) ==
  Let(Extract(st, "dizha", _find_dizha(st.remaining)), LAMBDA s1 :
  Let(Extract(s1, "tongzi", _find_tongzi(s1.remaining)), LAMBDA s2 :
  Let(Extract(s2, "bombs", _find_bombs(s2.remaining)), LAMBDA s3 :
    [s3 EXCEPT
       !.patterns.dizha = SortDesc(s3.patterns.dizha, LAMBDA x : <<x[1].rank>>),
       !.patterns.tongzi = SortDesc(s3.patterns.tongzi, LAMBDA x : <<x[1].suit, x[1].rank>>),
       !.patterns.bombs = SortDesc(s3.patterns.bombs, LAMBDA x : <<Len(x), x[1].rank>>)])))

\* HandPatternAnalyzer._extract_airplane_chains
_extract_airplane_chains(st) ==
  Let(Extract(st, "airplane_chains", _find_airplane_chains(st.remaining)), LAMBDA s1 :
    [s1 EXCEPT !.patterns.airplane_chains =
       SortDesc(s1.patterns.airplane_chains, LAMBDA x : <<Len(x), x[1].rank>>)])

\* HandPatternAnalyzer._extract_triples
_extract_triples(st) ==
  Let(Extract(st, "triples", _find_triples(st.remaining)), LAMBDA s1 :
    [s1 EXCEPT !.patterns.triples =
       SortDesc(s1.patterns.triples, LAMBDA x : <<x[1].rank>>)])

\* HandPatternAnalyzer._extract_consecutive_pair_chains
_extract_consecutive_pair_chains(st) ==
  Let(Extract(st, "consecutive_pair_chains",
              _find_consecutive_pair_chains(st.remaining)), LAMBDA s1 :
    [s1 EXCEPT !.patterns.consecutive_pair_chains =
       SortDesc(s1.patterns.consecutive_pair_chains, LAMBDA x : <<Len(x), x[1].rank>>)])

\* HandPatternAnalyzer._extract_pairs: per rank, from the highest down, the
\* group is cut into pairs cards[:2], cards[2:4], ... while two cards are left.
_extract_pairs(st) ==
  LET ranks == SortDesc(RankKeys(st.remaining), LAMBDA r : <<r>>)
      pairs_of(rank) ==
        LET cs == RankGroup(st.remaining, rank)
        IN [k \in 1..(Len(cs) \div 2) |-> SubSeq(cs, 2 * k - 1, 2 * k)]
  IN Extract(st, "pairs", Flatten([i \in 1..Len(ranks) |-> pairs_of(ranks[i])]))

\* HandPatternAnalyzer._extract_singles
_extract_singles(st) ==
  IF st.raised THEN st
  ELSE [st EXCEPT !.patterns.singles = SortDesc(st.remaining, LAMBDA c : <<c.rank>>),
                  !.remaining = <<>>]

\* Steps 1 to 7 of analyze_patterns on the state s0 = [hand, remaining,
\* patterns, raised]: hand is the caller's list, remaining the working list
\* remaining_cards; every stage removes cards from remaining only.
analyze_patterns_stages(s0) ==
  Let(_extract_trump_cards(s0), LAMBDA s1 :
  Let(_extract_airplane_chains(s1), LAMBDA s2 :
  Let(_extract_triples(s2), LAMBDA s3 :
  Let(_extract_consecutive_pair_chains(s3), LAMBDA s4 :
  Let(_extract_pairs(s4), LAMBDA s5 :
  Let(_extract_singles(s5), LAMBDA s6 :
    [s6 EXCEPT
       !.patterns.trump_count =
         Len(s6.patterns.dizha) + Len(s6.patterns.tongzi) + Len(s6.patterns.bombs),
       !.patterns.has_control_cards =
         \E i \in 1..Len(s6.hand) : s6.hand[i].rank \in {TWO, ACE, KING}]))))))

\* A faulty analyze_patterns: remaining_cards is the caller's list itself, not
\* a copy, so what the stages remove is removed from the caller's list.
analyze_patterns_run_aliased(hand) ==
  IF Falsy(hand)
  THEN [hand |-> hand, remaining |-> <<>>, patterns |-> HandPatterns(0), raised |-> FALSE]
  ELSE
    Let(analyze_patterns_stages([hand |-> hand, remaining |-> hand,
                                 patterns |-> HandPatterns(Len(hand)), raised |-> FALSE]),
        LAMBDA run : [run EXCEPT !.hand = run.remaining])

\* HandPatternAnalyzer.analyze_patterns, with its lists: the result is
\* [hand, remaining, patterns, raised]; hand is the caller's list after the
\* call, remaining the working list, which starts as the copy list(hand);
\* raised tells that the call ended in an exception instead of returning
\* patterns.
analyze_patterns_run(hand) ==
  IF Falsy(hand)
  THEN [hand |-> hand, remaining |-> <<>>, patterns |-> HandPatterns(0), raised |-> FALSE]
  ELSE
    analyze_patterns_stages([hand |-> hand, remaining |-> hand,
                             patterns |-> HandPatterns(Len(hand)), raised |-> FALSE])

\* HandPatternAnalyzer.analyze_patterns: the HandPatterns returned.
analyze_patterns(hand) == analyze_patterns_run(hand).patterns

(***************************************************************************)
(* The inputs.  A deck is a sequence of <<card, copies>>; the hands dealt   *)
(* from it are its sub-multisets of at most MaxCards cards, each listed in *)
(* deck order.                                                             *)
(***************************************************************************)
MaxCards == 12

Copies(card, k) == [i \in 1..k |-> card]

RECURSIVE SubHands(_)
SubHands(deck) ==
  IF Len(deck) = 0 THEN {<<>>}
  ELSE LET rest == SubHands(Tail(deck))
       IN {Copies(Head(deck)[1], k) \o r : k \in 0..Head(deck)[2], r \in rest}

Dealt(deck) == {h \in SubHands(deck) : Len(h) <= MaxCards}

\* One rank in all four suits, two copies of each and a third of the lowest
\* and of the highest suit.
TrumpDeck(rank) ==
  <<<<Card(DIAMONDS, rank), 3>>, <<Card(CLUBS, rank), 2>>,
    <<Card(HEARTS, rank), 2>>, <<Card(SPADES, rank), 3>>>>

\* Three copies of one card of each of five ranks: 5-6-7 and A-2.
ChainDeck ==
  <<<<Card(HEARTS, FIVE), 3>>, <<Card(HEARTS, SIX), 3>>, <<Card(HEARTS, SEVEN), 3>>,
    <<Card(HEARTS, ACE), 3>>, <<Card(HEARTS, TWO), 3>>>>

\* Four copies of one card of two neighbouring ranks, and one odd card.
WingDeck ==
  <<<<Card(HEARTS, FIVE), 4>>, <<Card(HEARTS, SIX), 4>>, <<Card(CLUBS, NINE), 1>>>>

\* The card lists submitted as a play: None, and the hands of the decks.
Plays ==
  {NoneCards} \cup Dealt(TrumpDeck(FIVE)) \cup Dealt(TrumpDeck(SIX)) \cup Dealt(ChainDeck)
    \cup Dealt(WingDeck)

\* The plays on the table: no play (None), or a recognized pattern.
CurrentPlays == {analyze_cards(c) : c \in Plays}

\* The lists whose every ordering is explored: the hands of at most
\* MaxShuffled cards of two small decks.
MaxShuffled == 9

PairDeck ==
  <<<<Card(DIAMONDS, FIVE), 2>>, <<Card(CLUBS, FIVE), 2>>,
    <<Card(HEARTS, FIVE), 2>>, <<Card(SPADES, FIVE), 2>>>>

TripleDeck ==
  <<<<Card(HEARTS, FIVE), 3>>, <<Card(HEARTS, SIX), 3>>, <<Card(HEARTS, SEVEN), 3>>,
    <<Card(CLUBS, NINE), 1>>>>

ShuffledHands ==
  {h \in SubHands(PairDeck) \cup SubHands(TripleDeck) : Len(h) <= MaxShuffled}

\* The hands that are decomposed: at most MaxHand cards of three decks.
MaxHand == 16

\* One rank, four copies of each suit and a fifth diamond.
QuadDeck ==
  <<<<Card(DIAMONDS, FIVE), 5>>, <<Card(CLUBS, FIVE), 4>>,
    <<Card(HEARTS, FIVE), 4>>, <<Card(SPADES, FIVE), 4>>>>

\* Four consecutive ranks, two copies of two suits each.
RunDeck ==
  <<<<Card(DIAMONDS, FIVE), 2>>, <<Card(CLUBS, FIVE), 2>>,
    <<Card(DIAMONDS, SIX), 2>>, <<Card(CLUBS, SIX), 2>>,
    <<Card(DIAMONDS, SEVEN), 2>>, <<Card(CLUBS, SEVEN), 2>>,
    <<Card(DIAMONDS, EIGHT), 2>>, <<Card(CLUBS, EIGHT), 2>>>>

\* Same-suit triples next to mixed ones, and control cards.
MixedDeck ==
  <<<<Card(SPADES, KING), 3>>, <<Card(CLUBS, KING), 1>>,
    <<Card(SPADES, ACE), 3>>, <<Card(CLUBS, ACE), 1>>,
    <<Card(SPADES, TWO), 2>>, <<Card(CLUBS, TWO), 1>>>>

\* Three cards of one rank and suit twice: a low rank in the highest suit,
\* a high rank in the lowest suit.
SuitDeck ==
  <<<<Card(SPADES, FIVE), 3>>, <<Card(DIAMONDS, KING), 3>>, <<Card(CLUBS, KING), 2>>>>

Hands ==
  {h \in SubHands(QuadDeck) \cup SubHands(RunDeck) \cup SubHands(MixedDeck)
            \cup SubHands(SuitDeck) :
     Len(h) <= MaxHand}

(***************************************************************************)
(* ai_helpers/play_generator.py: the plays a hand holds, and those of them *)
(* that beat the play on the table.  Every list comes in the order the     *)
(* code builds it.                                                         *)
(***************************************************************************)
\* itertools.combinations(list, k): the sub-lists of k elements, in
\* lexicographic order of their positions.
RECURSIVE combinations(_, _)
combinations(list, k) ==
  IF k = 0 THEN <<<<>>>>
  ELSE IF Len(list) < k THEN <<>>
  ELSE LET taken == combinations(Tail(list), k - 1)
           left == combinations(Tail(list), k)
       IN [i \in 1..Len(taken) |-> <<Head(list)>> \o taken[i]] \o left

\* The plays of a list that the recognizer gives the type play_type
\* (`if pattern and pattern.play_type == play_type`).
OfType(plays, play_type) ==
  SelectSeq(plays, LAMBDA p : analyze_cards(p).play_type = play_type)

\* cards_list.extend(rank_groups[rank][:n]) for rank in ranks
FirstOfEach(hand, ranks, n) ==
  Flatten([k \in 1..Len(ranks) |-> Take(RankGroup(hand, ranks[k]), n)])

\* The ranks of which the hand holds at least n cards, in the order of
\* rank_groups.
RanksWith(hand, n) ==
  SelectSeq(RankKeys(hand), LAMBDA r : Len(RankGroup(hand, r)) >= n)

\* valid_ranks[i:i+length] for length = 2, 3, ... and, per length, for
\* i = 0, 1, ...
Windows(valid_ranks) ==
  Flatten([m \in 1..(Len(valid_ranks) - 1) |->
            [i \in 1..(Len(valid_ranks) - m) |-> SubSeq(valid_ranks, i, i + m)]])

\* PlayGenerator._is_consecutive
_is_consecutive(ranks) ==
  IF Len(ranks) <= 1 THEN TRUE
  ELSE \A i \in 2..Len(ranks) : ranks[i] = ranks[i-1] + 1

\* PlayGenerator._generate_pairs
_generate_pairs(hand) ==
  LET keys == RankKeys(hand)
      pairs(rank) ==
        IF Len(RankGroup(hand, rank)) >= 2
        THEN OfType(combinations(RankGroup(hand, rank), 2), PAIR)
        ELSE <<>>
  IN Flatten([i \in 1..Len(keys) |-> pairs(keys[i])])

\* PlayGenerator._generate_consecutive_pairs
_generate_consecutive_pairs(hand) ==
  LET runs == SelectSeq(Windows(sorted(RanksWith(hand, 2))), _is_consecutive)
  IN OfType([i \in 1..Len(runs) |-> FirstOfEach(hand, runs[i], 2)], CONSECUTIVE_PAIRS)

\* PlayGenerator._generate_triples
_generate_triples(hand) ==
  LET keys == RankKeys(hand)
      triples(rank) ==
        IF Len(RankGroup(hand, rank)) >= 3
        THEN OfType(combinations(RankGroup(hand, rank), 3), TRIPLE)
        ELSE <<>>
  IN Flatten([i \in 1..Len(keys) |-> triples(keys[i])])

\* PlayGenerator._generate_triple_with_two
_generate_triple_with_two(hand) ==
  LET triple_ranks == RanksWith(hand, 3)
      pair_ranks ==
        SelectSeq(RanksWith(hand, 2), LAMBDA r : Len(RankGroup(hand, r)) < 3)
          \o RanksWith(hand, 5)
      pair_cards(triple_rank, pair_rank) ==
        IF pair_rank = triple_rank
        THEN SubSeq(RankGroup(hand, pair_rank), 4, 5)
        ELSE Take(RankGroup(hand, pair_rank), 2)
      combos(triple_rank) ==
        LET usable == SelectSeq(pair_ranks, LAMBDA r :
                        r # triple_rank \/ Len(RankGroup(hand, r)) >= 5)
        IN OfType([j \in 1..Len(usable) |->
                     Take(RankGroup(hand, triple_rank), 3)
                       \o pair_cards(triple_rank, usable[j])],
                  TRIPLE_WITH_TWO)
  IN Flatten([i \in 1..Len(triple_ranks) |-> combos(triple_ranks[i])])

\* PlayGenerator._generate_airplanes
_generate_airplanes(hand) ==
  LET runs == SelectSeq(Windows(sorted(RanksWith(hand, 3))), _is_consecutive)
  IN OfType([i \in 1..Len(runs) |-> FirstOfEach(hand, runs[i], 3)], AIRPLANE)

\* PlayGenerator._generate_airplane_with_wings
_generate_airplane_with_wings(hand) ==
  LET runs == SelectSeq(Windows(sorted(RanksWith(hand, 3))), _is_consecutive)
      combos(ranks) ==
        LET airplane_cards == FirstOfEach(hand, ranks, 3)
            remaining_cards ==
              SelectSeq(hand, LAMBDA c : c \notin RangeOf(airplane_cards))
            pair_ranks == RanksWith(remaining_cards, 2)
            pair_combos ==
              IF Len(pair_ranks) >= Len(ranks)
              THEN combinations(pair_ranks, Len(ranks))
              ELSE <<>>
        IN OfType([j \in 1..Len(pair_combos) |->
                     airplane_cards \o FirstOfEach(remaining_cards, pair_combos[j], 2)],
                  AIRPLANE_WITH_WINGS)
  IN Flatten([i \in 1..Len(runs) |-> combos(runs[i])])

\* PlayGenerator._generate_bombs
_generate_bombs(hand) ==
  LET keys == RanksWith(hand, 4)
      bombs(rank) ==
        LET rank_cards == RankGroup(hand, rank)
        IN Flatten([m \in 1..(Len(rank_cards) - 3) |->
                      OfType(combinations(rank_cards, m + 3), BOMB)])
  IN Flatten([i \in 1..Len(keys) |-> bombs(keys[i])])

\* PlayGenerator._generate_tongzi
_generate_tongzi(hand) ==
  LET keys == Keys([i \in 1..Len(hand) |-> <<hand[i].suit, hand[i].rank>>])
      group_cards(key) == SelectSeq(hand, LAMBDA c : <<c.suit, c.rank>> = key)
      tongzi(key) ==
        IF Len(group_cards(key)) >= 3
        THEN OfType(combinations(group_cards(key), 3), TONGZI)
        ELSE <<>>
  IN Flatten([i \in 1..Len(keys) |-> tongzi(keys[i])])

\* PlayGenerator._generate_dizha
_generate_dizha(hand) ==
  LET keys ==
        SelectSeq(RanksWith(hand, 8), LAMBDA r :
          \A i \in 1..Len(Suit) : Len(SuitGroup(RankGroup(hand, r), Suit[i])) >= 2)
      dizha_cards(rank) ==
        Flatten([i \in 1..Len(Suit) |-> Take(SuitGroup(RankGroup(hand, rank), Suit[i]), 2)])
  IN OfType([i \in 1..Len(keys) |-> dizha_cards(keys[i])], DIZHA)

\* The plays of a list that are recognized and of a higher primary rank than
\* the current pattern.
HigherRank(plays, current_pattern) ==
  SelectSeq(plays, LAMBDA p :
    /\ analyze_cards(p) # None
    /\ analyze_cards(p).primary_rank > current_pattern.primary_rank)

\* Those of them that have as many cards as the current pattern.
HigherRankSameCount(plays, current_pattern) ==
  SelectSeq(HigherRank(plays, current_pattern), LAMBDA p :
    Len(p) = current_pattern.card_count)

\* PlayGenerator._generate_higher_singles
_generate_higher_singles(hand, current_pattern) ==
  LET higher == SelectSeq(hand, LAMBDA c : c.rank > current_pattern.primary_rank)
  IN [i \in 1..Len(higher) |-> <<higher[i]>>]

\* PlayGenerator._generate_higher_pairs
_generate_higher_pairs(hand, current_pattern) ==
  HigherRank(_generate_pairs(hand), current_pattern)

\* PlayGenerator._generate_higher_consecutive_pairs
_generate_higher_consecutive_pairs(hand, current_pattern) ==
  HigherRankSameCount(_generate_consecutive_pairs(hand), current_pattern)

\* PlayGenerator._generate_higher_triples
_generate_higher_triples(hand, current_pattern) ==
  HigherRank(_generate_triples(hand), current_pattern)

\* PlayGenerator._generate_higher_triple_with_two
_generate_higher_triple_with_two(hand, current_pattern) ==
  HigherRank(_generate_triple_with_two(hand), current_pattern)

\* PlayGenerator._generate_higher_airplanes
_generate_higher_airplanes(hand, current_pattern) ==
  HigherRankSameCount(_generate_airplanes(hand), current_pattern)

\* PlayGenerator._generate_higher_airplane_with_wings
_generate_higher_airplane_with_wings(hand, current_pattern) ==
  HigherRankSameCount(_generate_airplane_with_wings(hand), current_pattern)

\* PlayGenerator._generate_higher_bombs: more cards of any rank, or as many
\* cards of a higher rank.
_generate_higher_bombs(hand, current_pattern) ==
  SelectSeq(_generate_bombs(hand), LAMBDA bomb :
    /\ analyze_cards(bomb) # None
    /\ \/ Len(bomb) > current_pattern.card_count
       \/ /\ Len(bomb) = current_pattern.card_count
          /\ analyze_cards(bomb).primary_rank > current_pattern.primary_rank)

\* PlayGenerator._generate_higher_tongzi
_generate_higher_tongzi(hand, current_pattern) ==
  SelectSeq(_generate_tongzi(hand), LAMBDA tongzi : can_beat_play(tongzi, current_pattern))

\* PlayGenerator._generate_higher_dizha
_generate_higher_dizha(hand, current_pattern) ==
  HigherRank(_generate_dizha(hand), current_pattern)

\* Step 1 of generate_beating_plays_with_same_type_or_trump: the plays of
\* the current type and a higher rank.
SameTypePlays(hand, current_pattern) ==
  CASE current_pattern.play_type = SINGLE -> _generate_higher_singles(hand, current_pattern)
    [] current_pattern.play_type = PAIR -> _generate_higher_pairs(hand, current_pattern)
    [] current_pattern.play_type = CONSECUTIVE_PAIRS ->
         _generate_higher_consecutive_pairs(hand, current_pattern)
    [] current_pattern.play_type = TRIPLE -> _generate_higher_triples(hand, current_pattern)
    [] current_pattern.play_type = TRIPLE_WITH_TWO ->
         _generate_higher_triple_with_two(hand, current_pattern)
    [] current_pattern.play_type = AIRPLANE -> _generate_higher_airplanes(hand, current_pattern)
    [] current_pattern.play_type = AIRPLANE_WITH_WINGS ->
         _generate_higher_airplane_with_wings(hand, current_pattern)
    [] OTHER -> <<>>

\* Step 2: every trump against a normal play, the hierarchy against a trump.
TrumpPlays(hand, current_pattern) ==
  CASE current_pattern.play_type = BOMB ->
         _generate_higher_bombs(hand, current_pattern) \o _generate_tongzi(hand)
           \o _generate_dizha(hand)
    [] current_pattern.play_type = TONGZI ->
         _generate_higher_tongzi(hand, current_pattern) \o _generate_dizha(hand)
    [] current_pattern.play_type = DIZHA -> _generate_higher_dizha(hand, current_pattern)
    [] OTHER -> _generate_bombs(hand) \o _generate_tongzi(hand) \o _generate_dizha(hand)

\* PlayGenerator.generate_beating_plays_with_same_type_or_trump
generate_beating_plays_with_same_type_or_trump(hand, current_pattern) ==
  IF Len(hand) = 0 THEN <<>>
  ELSE SelectSeq(SameTypePlays(hand, current_pattern) \o TrumpPlays(hand, current_pattern),
                 LAMBDA play : can_beat_play(play, current_pattern))

(***************************************************************************)
(* models/config.py and scoring/engine.py: the game configuration and the  *)
(* scoring engine.  An engine is [config, scoring_events]; a method that    *)
(* writes the engine gives [self, returned]: the engine after the call and  *)
(* what the call returned.                                                 *)
(***************************************************************************)
\* GameConfig(): the default configuration.
GameConfig ==
  [num_players |-> 3, finish_bonus |-> <<100, -40, -60>>,
   k_tongzi_bonus |-> 100, a_tongzi_bonus |-> 200, two_tongzi_bonus |-> 300,
   dizha_bonus |-> 400, must_beat_rule |-> TRUE]

\* BonusType
ROUND_WIN == "round_win"
K_TONGZI == "k_tongzi"
A_TONGZI == "a_tongzi"
TWO_TONGZI == "two_tongzi"
DIZHA_BONUS == "dizha"
FINISH_FIRST == "finish_first"
FINISH_SECOND == "finish_second"
FINISH_THIRD == "finish_third"

\* ScoringEvent(...), without its reason text; round_number 0 is Python's
\* None.
ScoringEvent(player_id, bonus_type, points, round_number, cards_involved) ==
  [player_id |-> player_id, bonus_type |-> bonus_type, points |-> points,
   round_number |-> round_number, cards_involved |-> cards_involved]

\* Python's None in place of a ScoringEvent.
NoEvent == ScoringEvent("", "", 0, 0, <<>>)

\* ScoringEngine(config)
ScoringEngine(config) == [config |-> config, scoring_events |-> <<>>]

\* Card.is_scoring_card
is_scoring_card(card) == card.rank \in {FIVE, TEN, KING}

\* ScoringEngine.calculate_round_base_score
RECURSIVE calculate_round_base_score(_)
calculate_round_base_score(card_list) ==
  IF Len(card_list) = 0 THEN 0
  ELSE (IF is_scoring_card(Head(card_list)) THEN score_value(Head(card_list)) ELSE 0)
         + calculate_round_base_score(Tail(card_list))

\* A faulty create_round_win_event: an event is made for a round without
\* points too.
create_round_win_event_always(self, player_id, round_cards, round_number) ==
  Let(calculate_round_base_score(round_cards), LAMBDA base_score :
    Let(ScoringEvent(player_id, ROUND_WIN, base_score, round_number,
                     SelectSeq(round_cards, is_scoring_card)), LAMBDA event :
      [self |-> [self EXCEPT !.scoring_events = Append(@, event)],
       returned |-> event]))

\* ScoringEngine.create_round_win_event
create_round_win_event(self, player_id, round_cards, round_number) ==
  Let(calculate_round_base_score(round_cards), LAMBDA base_score :
    IF base_score > 0
    THEN Let(ScoringEvent(player_id, ROUND_WIN, base_score, round_number,
                          SelectSeq(round_cards, is_scoring_card)), LAMBDA event :
           [self |-> [self EXCEPT !.scoring_events = Append(@, event)],
            returned |-> event])
    ELSE [self |-> self, returned |-> NoEvent])

\* ScoringEngine._get_tongzi_bonus
_get_tongzi_bonus(self, rank) ==
  IF rank = KING THEN self.config.k_tongzi_bonus
  ELSE IF rank = ACE THEN self.config.a_tongzi_bonus
  ELSE IF rank = TWO THEN self.config.two_tongzi_bonus
  ELSE 0

\* ScoringEngine._get_tongzi_bonus_type
_get_tongzi_bonus_type(rank) ==
  IF rank = KING THEN K_TONGZI
  ELSE IF rank = ACE THEN A_TONGZI
  ELSE IF rank = TWO THEN TWO_TONGZI
  ELSE ROUND_WIN

\* create_special_bonus_events after its test of is_round_winning_play: the
\* bonus of a Tongzi of K, A or 2, or of a Dizha.
SpecialBonus(self, player_id, winning_pattern, round_number) ==
  IF winning_pattern.play_type = TONGZI
  THEN IF _get_tongzi_bonus(self, winning_pattern.primary_rank) > 0
       THEN Let(ScoringEvent(player_id,
                             _get_tongzi_bonus_type(winning_pattern.primary_rank),
                             _get_tongzi_bonus(self, winning_pattern.primary_rank),
                             round_number, <<>>), LAMBDA event :
              [self |-> [self EXCEPT !.scoring_events = Append(@, event)],
               returned |-> <<event>>])
       ELSE [self |-> self, returned |-> <<>>]
  ELSE IF winning_pattern.play_type = DIZHA
  THEN Let(ScoringEvent(player_id, DIZHA_BONUS, self.config.dizha_bonus,
                        round_number, <<>>), LAMBDA event :
         [self |-> [self EXCEPT !.scoring_events = Append(@, event)],
          returned |-> <<event>>])
  ELSE [self |-> self, returned |-> <<>>]

\* A faulty create_special_bonus_events: is_round_winning_play is not
\* looked at.
create_special_bonus_events_any_play(self, player_id, winning_pattern, round_number, is_round_winning_play) ==
  SpecialBonus(self, player_id, winning_pattern, round_number)

\* ScoringEngine.create_special_bonus_events
create_special_bonus_events(self, player_id, winning_pattern, round_number, is_round_winning_play) ==
  IF ~is_round_winning_play THEN [self |-> self, returned |-> <<>>]
  ELSE SpecialBonus(self, player_id, winning_pattern, round_number)

\* ScoringEngine.create_finish_bonus_events
create_finish_bonus_events(self, player_ids_in_finish_order) ==
  LET n == IF Len(player_ids_in_finish_order) < Len(self.config.finish_bonus)
           THEN Len(player_ids_in_finish_order) ELSE Len(self.config.finish_bonus)
      events == [i \in 1..n |->
                   ScoringEvent(player_ids_in_finish_order[i],
                                IF i = 1 THEN FINISH_FIRST
                                ELSE IF i = 2 THEN FINISH_SECOND ELSE FINISH_THIRD,
                                self.config.finish_bonus[i], 0, <<>>)]
  IN [self |-> [self EXCEPT !.scoring_events = @ \o events], returned |-> events]

\* ScoringEngine.calculate_total_score_for_player
RECURSIVE SumPoints(_)
SumPoints(events) ==
  IF Len(events) = 0 THEN 0 ELSE Head(events).points + SumPoints(Tail(events))

calculate_total_score_for_player(self, player_id) ==
  SumPoints(SelectSeq(self.scoring_events, LAMBDA event : event.player_id = player_id))

(***************************************************************************)
(* simulation/game_simulator.py: GameState and GameSimulator.  A method    *)
(* that writes the game state takes the state and gives the state after    *)
(* the call; _execute_player_action gives [state, raised], raised telling   *)
(* that the call ended in ValueError, with the state as the exception left  *)
(* it.                                                                     *)
(***************************************************************************)
\* PlayerAction
PLAY == "play"
PASS == "pass"
SKIP_NO_CARDS == "skip_no_cards"

\* Python's None in place of a player id.
NoPlayer == ""

\* RoundLog(...), without its reason text.
RoundLog(round_number, action_number, player_id, action, cards_played, played_pattern, hand_size_before, hand_size_after) ==
  [round_number |-> round_number, action_number |-> action_number,
   player_id |-> player_id, action |-> action, cards_played |-> cards_played,
   pattern |-> played_pattern, hand_size_before |-> hand_size_before,
   hand_size_after |-> hand_size_after, is_round_winner |-> FALSE]

\* GameState(...) as GameSimulator.__init__ builds it; current_player_index
\* counts from 0.
GameState(config, player_ids, player_hands, current_player_index) ==
  [config |-> config, player_ids |-> player_ids, player_hands |-> player_hands,
   scoring_engine |-> ScoringEngine(config),
   current_round |-> 1, current_player_index |-> current_player_index,
   current_round_plays |-> <<>>, current_best_play |-> None,
   last_player_who_played |-> NoPlayer, consecutive_passes |-> 0,
   finished_players |-> <<>>, round_logs |-> <<>>, game_over |-> FALSE]

\* GameState.get_current_player
get_current_player(st) == st.player_ids[st.current_player_index + 1]

\* GameState.get_next_player_index
get_next_player_index(st) == (st.current_player_index + 1) % Len(st.player_ids)

\* GameState.advance_to_next_player
advance_to_next_player(st) ==
  [st EXCEPT !.current_player_index = get_next_player_index(st)]

\* GameState.is_player_finished
is_player_finished(st, player_id) ==
  \E i \in 1..Len(st.finished_players) : st.finished_players[i] = player_id

\* GameState.get_active_players
get_active_players(st) ==
  SelectSeq(st.player_ids, LAMBDA pid : ~is_player_finished(st, pid))

\* A faulty removal loop: a card that the hand does not hold is passed over.
RECURSIVE TakeFromHandLenient(_, _)
TakeFromHandLenient(hand, cards_to_play) ==
  IF Len(cards_to_play) = 0 THEN [hand |-> hand, raised |-> FALSE]
  ELSE IF ~(\E i \in 1..Len(hand) : hand[i] = Head(cards_to_play))
  THEN TakeFromHandLenient(hand, Tail(cards_to_play))
  ELSE TakeFromHandLenient(Remove(hand, Head(cards_to_play)), Tail(cards_to_play))

\* for card in cards_to_play: if card not in hand: raise; hand.remove(card).
\* The result is [hand, raised]: the cards before the first one that is
\* missing have left the hand when the loop raises.
RECURSIVE TakeFromHand(_, _)
TakeFromHand(hand, cards_to_play) ==
  IF Len(cards_to_play) = 0 THEN [hand |-> hand, raised |-> FALSE]
  ELSE IF ~(\E i \in 1..Len(hand) : hand[i] = Head(cards_to_play))
  THEN [hand |-> hand, raised |-> TRUE]
  ELSE TakeFromHand(Remove(hand, Head(cards_to_play)), Tail(cards_to_play))

\* A faulty end of _execute_player_action: the player is not entered in
\* finished_players.
MarkFinishedNever(st, player_id) == st

\* The end of _execute_player_action: a player whose hand became empty is
\* appended to finished_players, once.
MarkFinished(st, player_id) ==
  IF Len(st.player_hands[player_id]) = 0 /\ ~is_player_finished(st, player_id)
  THEN [st EXCEPT !.finished_players = Append(@, player_id)]
  ELSE st

\* GameSimulator._execute_player_action
_execute_player_action(st, player_id, cards_to_play, action_number) ==
  LET hand == st.player_hands[player_id]
      hand_size_before == Len(hand)
  IN IF hand_size_before = 0
     THEN [state |-> [st EXCEPT !.round_logs =
                        Append(@, RoundLog(st.current_round, action_number, player_id,
                                           SKIP_NO_CARDS, <<>>, None, 0, 0))],
           raised |-> FALSE]
     ELSE IF Falsy(cards_to_play)
     THEN [state |-> [st EXCEPT !.consecutive_passes = @ + 1,
                                !.round_logs =
                        Append(@, RoundLog(st.current_round, action_number, player_id,
                                           PASS, <<>>, None,
                                           hand_size_before, hand_size_before))],
           raised |-> FALSE]
     ELSE IF analyze_cards(cards_to_play) = None
     THEN [state |-> st, raised |-> TRUE]
     ELSE IF ~can_beat_play(cards_to_play, st.current_best_play)
     THEN [state |-> st, raised |-> TRUE]
     ELSE
       Let(TakeFromHand(hand, cards_to_play), LAMBDA taken :
         IF taken.raised
         THEN [state |-> [st EXCEPT !.player_hands[player_id] = taken.hand],
               raised |-> TRUE]
         ELSE
           Let(analyze_cards(cards_to_play), LAMBDA played :
             [state |->
                MarkFinished(
                  [st EXCEPT
                     !.player_hands[player_id] = taken.hand,
                     !.current_best_play = played,
                     !.last_player_who_played = player_id,
                     !.current_round_plays = Append(@, <<player_id, cards_to_play, played>>),
                     !.consecutive_passes = 0,
                     !.round_logs =
                       Append(@, RoundLog(st.current_round, action_number, player_id,
                                          PLAY, cards_to_play, played,
                                          hand_size_before, Len(taken.hand)))],
                  player_id),
              raised |-> FALSE]))

\* A faulty _check_round_end: one pass ends the round.
_check_round_end_one_pass(st) ==
  \/ Len(get_active_players(st)) <= 1
  \/ st.consecutive_passes >= 1

\* GameSimulator._check_round_end
_check_round_end(st) ==
  \/ Len(get_active_players(st)) <= 1
  \/ st.consecutive_passes >= Len(get_active_players(st)) - 1

\* GameSimulator._find_next_active_player; indexes count from 0.
_find_next_active_player(st, start_idx) ==
  LET n == Len(st.player_ids)
      found == {i \in 1..n : ~is_player_finished(st, st.player_ids[((start_idx + i) % n) + 1])}
  IN IF found = {} THEN start_idx
     ELSE (start_idx + (CHOOSE i \in found : \A j \in found : i <= j)) % n

\* player_ids.index(player_id), counting from 0.
IndexOfPlayer(st, player_id) ==
  (CHOOSE i \in 1..Len(st.player_ids) : st.player_ids[i] = player_id) - 1

\* GameSimulator._start_new_round
_start_new_round(st) ==
  Let([st EXCEPT !.current_round = @ + 1, !.current_round_plays = <<>>,
                 !.current_best_play = None, !.consecutive_passes = 0], LAMBDA s1 :
    IF s1.last_player_who_played # NoPlayer
    THEN IF is_player_finished(s1, s1.last_player_who_played)
         THEN [s1 EXCEPT !.current_player_index =
                 _find_next_active_player(s1, IndexOfPlayer(s1, s1.last_player_who_played))]
         ELSE [s1 EXCEPT !.current_player_index =
                 IndexOfPlayer(s1, s1.last_player_who_played)]
    ELSE s1)

\* The loop of _end_round over reversed(round_logs): the last log entry of
\* this action number or of the winner is marked as the round winner's.
MarkRoundWinner(round_logs, last_action_number, winner_id) ==
  LET hits == {i \in 1..Len(round_logs) :
                 \/ round_logs[i].action_number = last_action_number
                 \/ round_logs[i].player_id = winner_id}
  IN IF hits = {} THEN round_logs
     ELSE [round_logs EXCEPT
             ![CHOOSE i \in hits : \A j \in hits : j <= i].is_round_winner = TRUE]

\* for _, cards, _ in current_round_plays: round_cards.extend(cards)
RECURSIVE RoundCards(_)
RoundCards(plays) ==
  IF Len(plays) = 0 THEN <<>> ELSE Head(plays)[2] \o RoundCards(Tail(plays))

\* GameSimulator._end_round
_end_round(st, last_action_number) ==
  IF st.last_player_who_played = NoPlayer THEN _start_new_round(st)
  ELSE
    Let([st EXCEPT !.round_logs =
           MarkRoundWinner(@, last_action_number, st.last_player_who_played)], LAMBDA s1 :
    Let([s1 EXCEPT !.scoring_engine =
           create_round_win_event(@, s1.last_player_who_played,
                                  RoundCards(s1.current_round_plays),
                                  s1.current_round).self], LAMBDA s2 :
    Let(IF s2.current_best_play # None
        THEN [s2 EXCEPT !.scoring_engine =
                create_special_bonus_events(@, s2.last_player_who_played,
                                            s2.current_best_play, s2.current_round,
                                            TRUE).self]
        ELSE s2, LAMBDA s3 :
      _start_new_round(s3))))

\* GameSimulator._check_game_end
_check_game_end(st) == Len(get_active_players(st)) <= 1

\* GameSimulator._end_game
_end_game(st) ==
  [st EXCEPT !.scoring_engine = create_finish_bonus_events(@, st.finished_players).self,
             !.game_over = TRUE]

\* hand[i:i+count] for i in range(len(hand) - count + 1), for count in
\* [1, 2, 3, 4] with len(hand) >= count: the slices the default strategy
\* tries, in its order, as <<count, i>> with i counting from 1.
TriedSlices(hand) ==
  {ci \in (1..4) \X (1..Len(hand)) : ci[2] + ci[1] - 1 <= Len(hand)}

\* A faulty default strategy: it never opens a round.
_default_play_strategy_never_opens(st, player_id) ==
  LET hand == st.player_hands[player_id]
      current == st.current_best_play
      found == {ci \in TriedSlices(hand) :
                  can_beat_play(SubSeq(hand, ci[2], ci[2] + ci[1] - 1), current)}
  IN IF current = None \/ found = {} THEN NoneCards
     ELSE LET first == CHOOSE ci \in found : \A dj \in found :
                         ci[1] < dj[1] \/ (ci[1] = dj[1] /\ ci[2] <= dj[2])
          IN SubSeq(hand, first[2], first[2] + first[1] - 1)

\* GameSimulator._default_play_strategy
_default_play_strategy(st, player_id) ==
  LET hand == st.player_hands[player_id]
      current == st.current_best_play
      found == {ci \in TriedSlices(hand) :
                  can_beat_play(SubSeq(hand, ci[2], ci[2] + ci[1] - 1), current)}
  IN IF current = None THEN <<hand[1]>>
     ELSE IF found = {} THEN NoneCards
     ELSE LET first == CHOOSE ci \in found : \A dj \in found :
                         ci[1] < dj[1] \/ (ci[1] = dj[1] /\ ci[2] <= dj[2])
          IN SubSeq(hand, first[2], first[2] + first[1] - 1)

\* One turn of the loop of play_full_game for a player who is still in the
\* game, with the cards the decision function gave.  The result is [state,
\* raised]: ValueError leaves play_full_game, with the state as it is.
PlayTurn(st, cards_to_play, action_number) ==
  Let(_execute_player_action(st, get_current_player(st), cards_to_play, action_number),
      LAMBDA done :
    IF done.raised THEN done
    ELSE
      Let(IF _check_round_end(done.state) THEN _end_round(done.state, action_number)
          ELSE done.state, LAMBDA s1 :
        IF _check_game_end(s1) THEN [state |-> _end_game(s1), raised |-> FALSE]
        ELSE [state |-> advance_to_next_player(s1), raised |-> FALSE]))

VARIABLES
  cards,          \* the card list passed in (new_cards / hand)
  current_play,   \* the play to beat, None when the round is unopened
  pattern,        \* what analyze_cards returned
  beats,          \* what can_beat_play returned
  hand_patterns,  \* what analyze_patterns returned
  raised,         \* whether analyze_patterns ended in an exception
  pc,             \* "start", "analyzed", "compared", "replied", "decomposed"
  state,          \* the GameState of the simulator, with its scoring engine
  call            \* the last call on the engine or turn of the simulator

vars == <<cards, current_play, pattern, beats, hand_patterns, raised, pc, state, call>>

\* No game is set up and nothing was called.
NoGame == GameState(GameConfig, <<>>, <<>>, 0)

NoCall == [op |-> "none", action_number |-> 0, raised |-> FALSE]

\* The caller's list after PatternRecognizer.analyze_cards(cards): sorted()
\* builds a new list and the Counters only read, the list given is not written.
analyze_cards_argument(card_list) == card_list

Start ==
  /\ pattern = None
  /\ beats = FALSE
  /\ hand_patterns = HandPatterns(0)
  /\ raised = FALSE
  /\ pc = "start"
  /\ state = NoGame
  /\ call = NoCall

\* PatternRecognizer.analyze_cards(cards)
AnalyzeCards ==
  /\ pc = "start"
  /\ pattern' = analyze_cards(cards)
  /\ cards' = analyze_cards_argument(cards)
  /\ pc' = "analyzed"
  /\ UNCHANGED <<current_play, beats, hand_patterns, raised, state, call>>

\* PlayValidator.can_beat_play(cards, current_play)
CanBeatPlay ==
  /\ pc = "analyzed"
  /\ beats' = can_beat_play(cards, current_play)
  /\ cards' = analyze_cards_argument(cards)
  /\ pc' = "compared"
  /\ UNCHANGED <<current_play, pattern, hand_patterns, raised, state, call>>

(***************************************************************************)
(* Spec: a play is recognized and then compared with the play on the       *)
(* table.                                                                  *)
(***************************************************************************)
Init ==
  /\ current_play \in CurrentPlays
  /\ cards \in Plays
  /\ Start

Next == AnalyzeCards \/ CanBeatPlay

Spec == Init /\ [][Next]_vars

\* HandPatternAnalyzer.analyze_patterns(cards)
AnalyzePatterns ==
  /\ pc = "start"
  /\ LET run == analyze_patterns_run(cards)
     IN /\ raised' = run.raised
        /\ hand_patterns' = IF run.raised THEN hand_patterns ELSE run.patterns
        /\ cards' = run.hand
  /\ pc' = "decomposed"
  /\ UNCHANGED <<current_play, pattern, beats, state, call>>

\* The caller hands over the same cards in another order: two neighbours
\* swap places.
Swap(list, i) == [list EXCEPT ![i] = list[i + 1], ![i + 1] = list[i]]

Shuffle ==
  /\ \E i \in 1..(Len(cards) - 1) :
       /\ cards[i] # cards[i + 1]
       /\ cards' = Swap(cards, i)
  /\ UNCHANGED <<current_play, pattern, beats, hand_patterns, raised, pc, state, call>>

(***************************************************************************)
(* SpecOrder: a list is recognized, in whatever order its cards come.      *)
(***************************************************************************)
InitOrder ==
  /\ current_play = None
  /\ cards \in ShuffledHands
  /\ Start

NextOrder == AnalyzeCards \/ Shuffle

SpecOrder == InitOrder /\ [][NextOrder]_vars

(***************************************************************************)
(* SpecHand: a hand is recognized as one play, or decomposed.              *)
(***************************************************************************)
InitHand ==
  /\ current_play = None
  /\ cards \in Hands
  /\ Start

NextHand == AnalyzeCards \/ AnalyzePatterns

SpecHand == InitHand /\ [][NextHand]_vars

(***************************************************************************)
(* SpecReply: a play is compared with the play on the table and, when it   *)
(* beats it, the cards of the beaten play are played back against it.      *)
(***************************************************************************)
\* The card lists of the two players.
ReplyPlays ==
  Dealt(TrumpDeck(FIVE)) \cup Dealt(TrumpDeck(SIX)) \cup Dealt(TripleDeck)

\* PlayValidator.can_beat_play(other cards, pattern): the cards behind the
\* beaten play are submitted against the play that beat them.
Reply ==
  /\ pc = "compared"
  /\ beats
  /\ current_play # None
  /\ \E other \in {c \in ReplyPlays : Len(c) = current_play.card_count} :
       /\ analyze_cards(other) = current_play
       /\ cards' = other
       /\ beats' = can_beat_play(other, pattern)
  /\ pattern' = current_play
  /\ current_play' = pattern
  /\ pc' = "replied"
  /\ UNCHANGED <<hand_patterns, raised, state, call>>

InitReply ==
  /\ current_play \in {analyze_cards(c) : c \in ReplyPlays} \ {None}
  /\ cards \in ReplyPlays
  /\ Start

NextReply == AnalyzeCards \/ CanBeatPlay \/ Reply

SpecReply == InitReply /\ [][NextReply]_vars

(***************************************************************************)
(* SpecFrame: one caller holds a card list and the play on the table and   *)
(* calls the recognizer, the validator or the decomposer with them.        *)
(***************************************************************************)
\* The caller's lists: hands of two decks, one of them not in sorted order.
FrameHands ==
  {h \in SubHands(MixedDeck) \cup SubHands(TripleDeck) : Len(h) <= MaxHand}

\* The plays on the table: no play (None), or a pattern of the triple deck.
FramePlays == {analyze_cards(c) : c \in SubHands(TripleDeck)}

InitFrame ==
  /\ current_play \in FramePlays
  /\ cards \in FrameHands
  /\ Start

NextFrame == AnalyzeCards \/ CanBeatPlay \/ AnalyzePatterns

SpecFrame == InitFrame /\ [][NextFrame]_vars

(***************************************************************************)
(* SpecScore: the methods of one ScoringEngine are called, in any order.   *)
(***************************************************************************)
\* The variables of the recognizer and the decomposer, which the engine and
\* the simulator leave alone.
recognizer_vars == <<cards, current_play, pattern, beats, hand_patterns, raised, pc>>

NoRecognizer ==
  /\ cards = <<>>
  /\ current_play = None
  /\ pattern = None
  /\ beats = FALSE
  /\ hand_patterns = HandPatterns(0)
  /\ raised = FALSE
  /\ pc = "start"

PlayerIds == <<"p1", "p2", "p3">>

\* The most events an engine holds before the calls stop.
MaxEvents == 2

\* The cards of a round: two 5s, a 10, a K and a 6.
ScoreDeck ==
  <<<<Card(HEARTS, FIVE), 2>>, <<Card(HEARTS, SIX), 1>>, <<Card(HEARTS, TEN), 1>>,
    <<Card(HEARTS, KING), 1>>>>

\* The winning patterns: a Tongzi of 5, K, A and 2, a Dizha, a Bomb, a single.
BonusPlays ==
  {Copies(Card(SPADES, r), 3) : r \in {FIVE, KING, ACE, TWO}}
    \cup {Copies(Card(DIAMONDS, FIVE), 2) \o Copies(Card(CLUBS, FIVE), 2)
            \o Copies(Card(HEARTS, FIVE), 2) \o Copies(Card(SPADES, FIVE), 2),
          <<Card(DIAMONDS, KING), Card(CLUBS, KING), Card(HEARTS, KING), Card(SPADES, KING)>>,
          <<Card(HEARTS, KING)>>}

\* ScoringEngine.create_round_win_event(player_id, round_cards, round_number)
CreateRoundWinEvent ==
  /\ Len(state.scoring_engine.scoring_events) < MaxEvents
  /\ \E player_id \in RangeOf(PlayerIds), round_cards \in SubHands(ScoreDeck) :
       LET done == create_round_win_event(state.scoring_engine, player_id, round_cards,
                                          state.current_round)
       IN /\ state' = [state EXCEPT !.scoring_engine = done.self]
          /\ call' = [op |-> "create_round_win_event", player_id |-> player_id,
                      round_cards |-> round_cards, round_number |-> state.current_round,
                      returned |-> done.returned, action_number |-> 0, raised |-> FALSE]
  /\ UNCHANGED recognizer_vars

\* ScoringEngine.create_special_bonus_events(player_id, winning_pattern,
\* round_number, is_round_winning_play)
CreateSpecialBonusEvents ==
  /\ Len(state.scoring_engine.scoring_events) < MaxEvents
  /\ \E player_id \in RangeOf(PlayerIds), winning_cards \in BonusPlays,
        is_round_winning_play \in BOOLEAN :
       LET done == create_special_bonus_events(state.scoring_engine, player_id,
                                               analyze_cards(winning_cards),
                                               state.current_round, is_round_winning_play)
       IN /\ state' = [state EXCEPT !.scoring_engine = done.self]
          /\ call' = [op |-> "create_special_bonus_events", player_id |-> player_id,
                      winning_pattern |-> analyze_cards(winning_cards),
                      round_number |-> state.current_round,
                      is_round_winning_play |-> is_round_winning_play,
                      returned |-> done.returned, action_number |-> 0, raised |-> FALSE]
  /\ UNCHANGED recognizer_vars

InitScore ==
  /\ NoRecognizer
  /\ state = GameState(GameConfig, PlayerIds, [pid \in RangeOf(PlayerIds) |-> <<>>], 0)
  /\ call = NoCall

NextScore == CreateRoundWinEvent \/ CreateSpecialBonusEvents

SpecScore == InitScore /\ [][NextScore]_vars

(***************************************************************************)
(* SpecSim: play_full_game with a decision function that may give any      *)
(* card list: a pass, cards of the hand, or a card the hand does not hold   *)
(* often enough.                                                           *)
(***************************************************************************)
\* The most actions of a game that are followed.
MaxActions == 7

\* The cards dealt: two 5s, two 6s and two Ks, sorted as sorted(hand) has
\* them.
SimDeck ==
  <<<<Card(DIAMONDS, FIVE), 2>>, <<Card(DIAMONDS, SIX), 2>>, <<Card(DIAMONDS, KING), 2>>>>

\* GameConfig.cards_per_player for a deck given as <<card, copies>> pairs,
\* no card being dealt aside.
cards_per_player(deck) ==
  LET F[n \in 0..Len(deck)] == IF n = 0 THEN 0 ELSE deck[n][2] + F[n - 1]
  IN F[Len(deck)] \div Len(PlayerIds)

\* The ways to deal the cards of a deck to the players, cards_per_player
\* cards each, every hand sorted.
Deals(deck) ==
  LET hands == {h \in SubHands(deck) : Len(h) = cards_per_player(deck)}
  IN {d \in [RangeOf(PlayerIds) -> hands] :
        \A i \in 1..Len(deck) :
          Count(d["p1"], deck[i][1]) + Count(d["p2"], deck[i][1])
            + Count(d["p3"], deck[i][1]) = deck[i][2]}

\* The sub-lists of a hand, in the order of the hand.
RECURSIVE SubLists(_)
SubLists(hand) ==
  IF Len(hand) = 0 THEN {<<>>}
  ELSE LET rest == SubLists(Tail(hand))
       IN rest \cup {<<Head(hand)>> \o r : r \in rest}

\* What a decision function may give for a hand: None, cards of the hand,
\* or one card of the hand twice.
Submissions(hand) ==
  {NoneCards} \cup (SubLists(hand) \ {<<>>})
    \cup {<<hand[i], hand[i]>> : i \in 1..Len(hand)}

\* play_full_game: the current player has finished and is skipped.
SkipFinished ==
  /\ ~state.game_over
  /\ ~call.raised
  /\ is_player_finished(state, get_current_player(state))
  /\ state' = advance_to_next_player(state)
  /\ UNCHANGED <<call, recognizer_vars>>

\* play_full_game: the current player's turn, with any decision.
Turn ==
  /\ ~state.game_over
  /\ ~call.raised
  /\ call.action_number < MaxActions
  /\ ~is_player_finished(state, get_current_player(state))
  /\ \E cards_to_play \in Submissions(state.player_hands[get_current_player(state)]) :
       \E done \in {PlayTurn(state, cards_to_play, call.action_number + 1)} :
         /\ state' = done.state
         /\ call' = [op |-> "turn", action_number |-> call.action_number + 1,
                     player_id |-> get_current_player(state),
                     cards_to_play |-> cards_to_play, raised |-> done.raised]
  /\ UNCHANGED recognizer_vars

InitSim ==
  /\ NoRecognizer
  /\ \E player_hands \in Deals(SimDeck),
        current_player_index \in 0..(Len(PlayerIds) - 1) :
       state = GameState(GameConfig, PlayerIds, player_hands, current_player_index)
  /\ call = NoCall

NextSim == SkipFinished \/ Turn

SpecSim == InitSim /\ [][NextSim]_vars

(***************************************************************************)
(* SpecGame: play_full_game with the default play strategy.                *)
(***************************************************************************)
\* The most actions of a game with the default strategy.
MaxGameActions == 60

\* The cards dealt: nine cards of two suits.
GameDeck ==
  <<<<Card(DIAMONDS, FIVE), 2>>, <<Card(DIAMONDS, SIX), 2>>, <<Card(DIAMONDS, SEVEN), 1>>,
    <<Card(DIAMONDS, KING), 2>>, <<Card(CLUBS, FIVE), 1>>, <<Card(CLUBS, SIX), 1>>>>

\* play_full_game: the current player's turn, with the default strategy.
TurnDefault ==
  /\ ~state.game_over
  /\ ~call.raised
  /\ call.action_number < MaxGameActions
  /\ ~is_player_finished(state, get_current_player(state))
  /\ \E cards_to_play \in {_default_play_strategy(state, get_current_player(state))} :
       \E done \in {PlayTurn(state, cards_to_play, call.action_number + 1)} :
         /\ state' = done.state
         /\ call' = [op |-> "turn", action_number |-> call.action_number + 1,
                     player_id |-> get_current_player(state),
                     cards_to_play |-> cards_to_play, raised |-> done.raised]
  /\ UNCHANGED recognizer_vars

InitGame ==
  /\ NoRecognizer
  /\ \E player_hands \in Deals(GameDeck),
        current_player_index \in 0..(Len(PlayerIds) - 1) :
       state = GameState(GameConfig, PlayerIds, player_hands, current_player_index)
  /\ call = NoCall

NextGame == SkipFinished \/ TurnDefault

\* The loop of play_full_game goes on while the game is not over.
SpecGame == InitGame /\ [][NextGame]_vars /\ WF_vars(NextGame)

(***************************************************************************)
(* SpecRespond: a player holds a hand and asks the generator for the plays *)
(* that beat the play on the table.                                        *)
(***************************************************************************)
\* Two or three cards of four ranks, 6-7 neighbours: pairs, triples, runs
\* of both and their wings.
RespondDeck ==
  <<<<Card(DIAMONDS, SIX), 2>>, <<Card(CLUBS, SIX), 1>>,
    <<Card(DIAMONDS, SEVEN), 2>>, <<Card(CLUBS, SEVEN), 1>>,
    <<Card(DIAMONDS, NINE), 2>>, <<Card(CLUBS, TEN), 2>>>>

\* The same shapes one rank lower, for the play on the table.
TableDeck ==
  <<<<Card(DIAMONDS, FIVE), 2>>, <<Card(CLUBS, FIVE), 1>>,
    <<Card(DIAMONDS, SIX), 2>>, <<Card(CLUBS, SIX), 1>>,
    <<Card(DIAMONDS, EIGHT), 2>>, <<Card(CLUBS, NINE), 2>>>>

\* The hands of the player: normal cards, or the trumps of the Kings.
RespondHands == Dealt(RespondDeck) \cup Dealt(TrumpDeck(KING))

\* The plays on the table: the patterns of the lower normal cards and the
\* trumps of the 5s and of the Kings.
TablePlays ==
  {analyze_cards(c) : c \in Dealt(TableDeck) \cup Dealt(TrumpDeck(FIVE))
                              \cup Dealt(TrumpDeck(KING))} \ {None}

\* PlayGenerator.generate_beating_plays_with_same_type_or_trump(cards,
\* current_play)
GenerateBeatingPlays ==
  /\ pc = "start"
  /\ call' = [op |-> "generate", action_number |-> 0, raised |-> FALSE,
              returned |-> generate_beating_plays_with_same_type_or_trump(cards, current_play)]
  /\ pc' = "generated"
  /\ UNCHANGED <<cards, current_play, pattern, beats, hand_patterns, raised, state>>

InitRespond ==
  /\ current_play \in TablePlays
  /\ cards \in RespondHands
  /\ Start

NextRespond == GenerateBeatingPlays

SpecRespond == InitRespond /\ [][NextRespond]_vars

(***************************************************************************)
(* The properties.                                                         *)
(***************************************************************************)
\* Bomb, Tongzi and Dizha, and the seven other play types.
TrumpTypes == {BOMB, TONGZI, DIZHA}

NonTrumpTypes ==
  {SINGLE, PAIR, CONSECUTIVE_PAIRS, TRIPLE, TRIPLE_WITH_TWO, AIRPLANE, AIRPLANE_WITH_WINGS}

ChainTypes == {CONSECUTIVE_PAIRS, AIRPLANE, AIRPLANE_WITH_WINGS}

\* The check of one play type on a card list.
Check(play_type, card_list) ==
  LET rank_counts == RankCounts(card_list)
      suit_rank_counts == SuitRankCounts(card_list)
  IN CASE play_type = DIZHA -> _check_dizha(card_list, suit_rank_counts, rank_counts)
       [] play_type = TONGZI -> _check_tongzi(card_list, suit_rank_counts, rank_counts)
       [] play_type = BOMB -> _check_bomb(card_list, rank_counts)
       [] play_type = AIRPLANE_WITH_WINGS -> _check_airplane_with_wings(card_list, rank_counts)
       [] play_type = AIRPLANE -> _check_airplane(card_list, rank_counts)
       [] play_type = TRIPLE_WITH_TWO -> _check_triple_with_two(card_list, rank_counts)
       [] play_type = TRIPLE -> _check_triple(card_list, rank_counts)
       [] play_type = CONSECUTIVE_PAIRS -> _check_consecutive_pairs(card_list, rank_counts)
       [] play_type = PAIR -> _check_pair(card_list, rank_counts)
       [] play_type = SINGLE -> _check_single(card_list, rank_counts)

\* The pattern of the first play type of `order` whose check finds one, None
\* when no check does.
FirstMatch(order, card_list) ==
  LET hits == {i \in 1..Len(order) : Check(order[i], card_list) # None}
  IN IF hits = {} THEN None
     ELSE Check(order[CHOOSE i \in hits : \A j \in hits : i <= j], card_list)

\* The card list has none of the ten shapes.
NoShape(card_list) ==
  \A t \in TrumpTypes \cup NonTrumpTypes : Check(t, card_list) = None

\* All the cards of the eight buckets of a HandPatterns, as one list.
BucketCards(hp) ==
  Flatten(hp.dizha) \o Flatten(hp.tongzi) \o Flatten(hp.bombs)
    \o Flatten(hp.airplane_chains) \o Flatten(hp.triples)
    \o Flatten(hp.consecutive_pair_chains) \o Flatten(hp.pairs) \o hp.singles

\* Two card lists hold the same cards the same number of times.
SameMultiset(a, b) ==
  \A c \in RangeOf(a) \cup RangeOf(b) : Count(a, c) = Count(b, c)

\* C1: whatever the order in which the cards of a list come, analyze_cards
\* returns the pattern it returned for the first order, equal in every
\* attribute, or None for all orders.
OrderIndependence ==
  pc = "analyzed" => analyze_cards(cards) = pattern

\* A list that came with its highest-ranked wing card first, after it was
\* recognized as an airplane with wings in another order.
OrderIndependenceWitness ==
  /\ pc = "analyzed"
  /\ pattern.play_type = AIRPLANE_WITH_WINGS
  /\ cards[1].rank = NINE
  /\ cards[Len(cards)].rank = FIVE

\* C2: the cards of the eight buckets returned by analyze_patterns are, as a
\* multiset, exactly the cards of the hand; the call returns for every hand,
\* the empty one included.
ExhaustivePartition ==
  pc = "decomposed" =>
    /\ ~raised
    /\ SameMultiset(BucketCards(hand_patterns), cards)
    /\ Len(BucketCards(hand_patterns)) = Len(cards)

\* A hand decomposed into a tongzi, a pair and singles.
ExhaustivePartitionWitness ==
  /\ pc = "decomposed"
  /\ Len(hand_patterns.tongzi) > 0
  /\ Len(hand_patterns.pairs) > 0
  /\ Len(hand_patterns.singles) > 1

\* C3: cards recognized as a Dizha beat the current play exactly when that
\* play is not a Dizha or is a Dizha of strictly lower rank.
DizhaSupremacy ==
  pc = "compared" /\ pattern.play_type = DIZHA =>
    (beats <=> \/ current_play.play_type # DIZHA
               \/ current_play.primary_rank < pattern.primary_rank)

\* A Dizha played on a Dizha of lower rank, and beating it.
DizhaSupremacyWitness ==
  /\ pc = "compared"
  /\ pattern.play_type = DIZHA
  /\ current_play.play_type = DIZHA
  /\ current_play.primary_rank < pattern.primary_rank
  /\ beats

\* C4: cards recognized as a Tongzi beat a current play exactly when that
\* play is a Bomb, or a Tongzi strictly smaller by rank and then suit; they
\* never beat one of the seven non-trump types.
TongziBeats ==
  pc = "compared" /\ pattern.play_type = TONGZI /\ current_play # None =>
    /\ beats <=>
         \/ current_play.play_type = BOMB
         \/ /\ current_play.play_type = TONGZI
            /\ \/ current_play.primary_rank < pattern.primary_rank
               \/ /\ current_play.primary_rank = pattern.primary_rank
                  /\ current_play.primary_suit < pattern.primary_suit
    /\ current_play.play_type \in NonTrumpTypes => ~beats

\* A Tongzi played on a Tongzi of its rank and a lower suit, and beating it.
TongziBeatsWitness ==
  /\ pc = "compared"
  /\ pattern.play_type = TONGZI
  /\ current_play.play_type = TONGZI
  /\ current_play.primary_rank = pattern.primary_rank
  /\ current_play.primary_suit < pattern.primary_suit
  /\ beats

\* C5: cards recognized as a Bomb beat a current play exactly when that play
\* is of a non-trump type, or a Bomb of strictly lower rank (whatever the
\* card counts), or a Bomb of the same rank with strictly fewer cards.
BombBeats ==
  pc = "compared" /\ pattern.play_type = BOMB /\ current_play # None =>
    (beats <=>
       \/ current_play.play_type \in NonTrumpTypes
       \/ /\ current_play.play_type = BOMB
          /\ \/ current_play.primary_rank < pattern.primary_rank
             \/ /\ current_play.primary_rank = pattern.primary_rank
                /\ current_play.card_count < pattern.card_count)

\* A Bomb played on a Bomb of lower rank but more cards, and beating it.
BombBeatsWitness ==
  /\ pc = "compared"
  /\ pattern.play_type = BOMB
  /\ current_play.play_type = BOMB
  /\ current_play.primary_rank < pattern.primary_rank
  /\ current_play.card_count > pattern.card_count
  /\ beats

\* C6: when both the new and the current pattern are of non-trump types, the
\* new one beats exactly when the play types are identical, chains have the
\* same chain length, and the new strength is strictly greater; so a chain
\* never beats a chain of another length, and equal rank never beats.
NonTrumpBeats ==
  pc = "compared" /\ pattern.play_type \in NonTrumpTypes
                  /\ current_play.play_type \in NonTrumpTypes =>
    /\ beats <=>
         /\ pattern.play_type = current_play.play_type
         /\ pattern.play_type \in ChainTypes =>
              Len(pattern.secondary_ranks) = Len(current_play.secondary_ranks)
         /\ pattern.strength > current_play.strength
    /\ /\ pattern.play_type \in ChainTypes
       /\ current_play.play_type \in ChainTypes
       /\ Len(pattern.secondary_ranks) # Len(current_play.secondary_ranks)
       => ~beats
    /\ pattern.primary_rank = current_play.primary_rank => ~beats

\* An airplane with wings of two triples played on one of three triples of
\* lower rank, and not beating it.
NonTrumpBeatsWitness ==
  /\ pc = "compared"
  /\ pattern.play_type = AIRPLANE_WITH_WINGS
  /\ current_play.play_type = AIRPLANE_WITH_WINGS
  /\ Len(pattern.secondary_ranks) = 2
  /\ Len(current_play.secondary_ranks) = 3
  /\ pattern.primary_rank > current_play.primary_rank
  /\ ~beats

\* C7: a new pattern of a non-trump type never beats a current Bomb, Tongzi
\* or Dizha; a current Tongzi is beaten only by a Tongzi or a Dizha; a
\* current Dizha is beaten only by a Dizha of strictly higher rank.
TrumpHierarchy ==
  pc = "compared" /\ pattern # None =>
    /\ /\ pattern.play_type \in NonTrumpTypes
       /\ current_play.play_type \in TrumpTypes
       => ~beats
    /\ current_play.play_type = TONGZI /\ beats =>
         pattern.play_type \in {TONGZI, DIZHA}
    /\ current_play.play_type = DIZHA /\ beats =>
         /\ pattern.play_type = DIZHA
         /\ pattern.primary_rank > current_play.primary_rank

\* A Bomb played on a Tongzi, and not beating it.
TrumpHierarchyWitness ==
  /\ pc = "compared"
  /\ pattern.play_type = BOMB
  /\ current_play.play_type = TONGZI
  /\ ~beats

\* C8: on an unopened round (no current play) can_beat_play is true exactly
\* when analyze_cards finds a pattern in the cards.
StartingRound ==
  pc = "compared" /\ current_play = None => (beats <=> pattern # None)

\* A round opened with an airplane with wings.
StartingRoundWitness ==
  /\ pc = "compared"
  /\ current_play = None
  /\ pattern.play_type = AIRPLANE_WITH_WINGS
  /\ beats

\* C9: for cards that are None, empty, or of none of the ten shapes,
\* analyze_cards returns None and can_beat_play returns false, whatever the
\* current play is, no current play included.
InvalidNeverBeats ==
  pc = "compared" /\ (Falsy(cards) \/ NoShape(cards)) =>
    pattern = None /\ ~beats

\* None was played on a single: no pattern, no beat.
InvalidNeverBeatsWitness ==
  /\ pc = "compared"
  /\ cards = NoneCards
  /\ current_play.play_type = SINGLE
  /\ pattern = None
  /\ ~beats

\* The order of the checks in analyze_cards.
CodeOrder ==
  <<DIZHA, TONGZI, BOMB, AIRPLANE, AIRPLANE_WITH_WINGS, TRIPLE_WITH_TWO, TRIPLE,
    CONSECUTIVE_PAIRS, PAIR, SINGLE>>

\* The order with AIRPLANE_WITH_WINGS ahead of AIRPLANE.
WingsFirstOrder ==
  <<DIZHA, TONGZI, BOMB, AIRPLANE_WITH_WINGS, AIRPLANE, TRIPLE_WITH_TWO, TRIPLE,
    CONSECUTIVE_PAIRS, PAIR, SINGLE>>

\* C10 (as amended): analyze_cards tests the shapes in the order Dizha,
\* Tongzi, Bomb, Airplane, AirplaneWithWings, TripleWithTwo, Triple,
\* ConsecutivePairs, Pair, Single and returns the first one found: Airplane
\* is tested before AirplaneWithWings.
AirplaneFirstPriority ==
  pc = "analyzed" /\ cards # NoneCards => pattern = FirstMatch(CodeOrder, cards)

\* Cards that pass both the airplane check and the airplane-with-wings check
\* were recognized as an airplane.
AirplaneFirstPriorityWitness ==
  /\ pc = "analyzed"
  /\ cards # NoneCards
  /\ Check(AIRPLANE, cards) # None
  /\ Check(AIRPLANE_WITH_WINGS, cards) # None
  /\ pattern.play_type = AIRPLANE

\* C10 (as stated): analyze_cards tests the shapes in the order Dizha,
\* Tongzi, Bomb, AirplaneWithWings, Airplane, TripleWithTwo, Triple,
\* ConsecutivePairs, Pair, Single and returns the first one found.
WingsFirstPriority ==
  pc = "analyzed" /\ cards # NoneCards => pattern = FirstMatch(WingsFirstOrder, cards)

\* The number of cards of rank r in a card list.
RankCount(card_list, r) == Len(SelectSeq(card_list, LAMBDA c : c.rank = r))

BodyAtLeastThree ==
  pc = "analyzed" /\ pattern.play_type = AIRPLANE_WITH_WINGS =>
    \A i \in 1..Len(pattern.secondary_ranks) :
      RankCount(cards, pattern.secondary_ranks[i]) >= 3

\* An airplane with wings whose body has a rank held four times.
BodyAtLeastThreeWitness ==
  /\ pc = "analyzed"
  /\ pattern.play_type = AIRPLANE_WITH_WINGS
  /\ \E i \in 1..Len(pattern.secondary_ranks) :
       RankCount(cards, pattern.secondary_ranks[i]) >= 4

\* C12 (as stated): in cards recognized as an airplane with wings, every rank
\* of the body occurs exactly three times.
BodyExactlyThree ==
  pc = "analyzed" /\ pattern.play_type = AIRPLANE_WITH_WINGS =>
    \A i \in 1..Len(pattern.secondary_ranks) :
      RankCount(cards, pattern.secondary_ranks[i]) = 3

\* The ranks that occur in a card list.
RanksOf(card_list) == {card_list[i].rank : i \in 1..Len(card_list)}

\* C13: the body of every recognized chain (consecutive pairs, airplane,
\* airplane with wings) is sorted on the scale 5 = 5 .. 2 = 15 and rises by
\* exactly 1 between neighbours, so 2 and 5 are never neighbours; the ranks
\* of consecutive pairs and of an airplane are the body, without a gap.
NoWraparound ==
  pc = "analyzed" /\ pattern.play_type \in ChainTypes =>
    LET body == pattern.secondary_ranks
    IN /\ \A i \in 2..Len(body) : body[i] = body[i - 1] + 1
       /\ \A i \in 1..Len(body) : body[i] \in FIVE..TWO
       /\ ~(FIVE \in RangeOf(body) /\ TWO \in RangeOf(body))
       /\ pattern.primary_rank = body[Len(body)]
       /\ pattern.play_type \in {CONSECUTIVE_PAIRS, AIRPLANE} =>
            RanksOf(cards) = body[1]..body[Len(body)]

\* Three 2s and three 5s with two more cards are not an airplane with wings
\* that wraps from 2 to 5.
NoWraparoundWitness ==
  /\ pc = "analyzed"
  /\ Len(cards) = 8
  /\ RankCount(cards, TWO) = 3
  /\ RankCount(cards, FIVE) = 3
  /\ RankCount(cards, SEVEN) = 2
  /\ pattern = None

\* The play types whose check finds a pattern in a card list.
Matching(card_list) ==
  {t \in TrumpTypes \cup NonTrumpTypes : Check(t, card_list) # None}

\* C14 (as amended): at most one of the ten checks of the recognizer finds a
\* pattern in a card list, except that the Airplane and AirplaneWithWings
\* checks may succeed together, the Tongzi and Triple checks succeed together
\* on three cards of one rank and suit, and the Dizha and Bomb checks succeed
\* together on a Dizha; the order of the checks matters for these pairs only.
ExclusiveShapes ==
  pc = "analyzed" /\ cards # NoneCards =>
    \/ Cardinality(Matching(cards)) <= 1
    \/ Matching(cards) = {AIRPLANE, AIRPLANE_WITH_WINGS}
    \/ Matching(cards) = {TONGZI, TRIPLE} /\ pattern.play_type = TONGZI
    \/ Matching(cards) = {DIZHA, BOMB} /\ pattern.play_type = DIZHA

\* Three cards of one rank and suit pass the Tongzi and the Triple check and
\* are recognized as a Tongzi.
ExclusiveShapesWitness ==
  /\ pc = "analyzed"
  /\ cards # NoneCards
  /\ Matching(cards) = {TONGZI, TRIPLE}
  /\ pattern.play_type = TONGZI

\* C14 (as stated): at most one of the ten checks finds a pattern in a card
\* list, except that Airplane and AirplaneWithWings may succeed together.
ExclusiveShapesButAirplanes ==
  pc = "analyzed" /\ cards # NoneCards =>
    \/ Cardinality(Matching(cards)) <= 1
    \/ Matching(cards) = {AIRPLANE, AIRPLANE_WITH_WINGS}

\* C15: beating is asymmetric: when cards recognized as one pattern beat a
\* second pattern, no cards recognized as the second pattern beat the first;
\* and no cards beat their own pattern.
BeatsAsymmetric ==
  /\ pc = "replied" => ~beats
  /\ pc = "compared" /\ pattern # None /\ current_play = pattern => ~beats

\* A Tongzi beat a Bomb, and the Bomb played back did not beat the Tongzi.
BeatsAsymmetricWitness ==
  /\ pc = "replied"
  /\ pattern.play_type = BOMB
  /\ current_play.play_type = TONGZI
  /\ ~beats

\* Every group of a bucket is recognized as the play type given.
AllOfType(bucket, play_type) ==
  \A i \in 1..Len(bucket) : analyze_cards(bucket[i]).play_type = play_type

\* C16: in the result of analyze_patterns every group of the dizha, tongzi,
\* bombs, airplane_chains, triples, consecutive_pair_chains and pairs
\* buckets, recognized on its own, has the play type of its bucket.
BucketTypes ==
  pc = "decomposed" /\ ~raised =>
    /\ AllOfType(hand_patterns.dizha, DIZHA)
    /\ AllOfType(hand_patterns.tongzi, TONGZI)
    /\ AllOfType(hand_patterns.bombs, BOMB)
    /\ AllOfType(hand_patterns.airplane_chains, AIRPLANE)
    /\ AllOfType(hand_patterns.triples, TRIPLE)
    /\ AllOfType(hand_patterns.consecutive_pair_chains, CONSECUTIVE_PAIRS)
    /\ AllOfType(hand_patterns.pairs, PAIR)

\* A hand decomposed into a Dizha and, from the eight cards of the same rank
\* left over, a triple, pairs and a single.
BucketTypesWitness ==
  /\ pc = "decomposed"
  /\ Len(hand_patterns.dizha) = 1
  /\ Len(hand_patterns.triples) = 1
  /\ Len(hand_patterns.pairs) = 2
  /\ Len(hand_patterns.singles) = 1

\* The groups of a bucket come in non-increasing recognizer strength.
ByStrength(bucket) ==
  \A i \in 1..(Len(bucket) - 1) :
    analyze_cards(bucket[i]).strength >= analyze_cards(bucket[i + 1]).strength

\* C17: in the result of analyze_patterns every bucket is in non-increasing
\* order of recognizer strength, and the singles in non-increasing order of
\* rank.
BucketsByStrength ==
  pc = "decomposed" /\ ~raised =>
    /\ ByStrength(hand_patterns.dizha)
    /\ ByStrength(hand_patterns.tongzi)
    /\ ByStrength(hand_patterns.bombs)
    /\ ByStrength(hand_patterns.airplane_chains)
    /\ ByStrength(hand_patterns.triples)
    /\ ByStrength(hand_patterns.consecutive_pair_chains)
    /\ ByStrength(hand_patterns.pairs)
    /\ \A i \in 1..(Len(hand_patterns.singles) - 1) :
         hand_patterns.singles[i].rank >= hand_patterns.singles[i + 1].rank

\* The working list of analyze_patterns after the Dizha and Tongzi stages.
AfterTongzi(hand) ==
  Let(Extract([hand |-> hand, remaining |-> hand, patterns |-> HandPatterns(Len(hand)), raised |-> FALSE],
              "dizha", _find_dizha(hand)), LAMBDA s1 :
    Extract(s1, "tongzi", _find_tongzi(s1.remaining)).remaining)

\* All the cards of the buckets below the bombs, as one list.
LowerBucketCards(hp) ==
  Flatten(hp.airplane_chains) \o Flatten(hp.triples)
    \o Flatten(hp.consecutive_pair_chains) \o Flatten(hp.pairs) \o hp.singles

\* C18: every rank that has four cards or more in the working list after the
\* Dizha and Tongzi stages ends with all those cards in one Bomb group and
\* with no card in the airplane_chains, triples, consecutive_pair_chains,
\* pairs or singles buckets; four cards of one rank in four suits give one
\* Bomb of 4 cards, no triple, pair or single, and trump_count = 1.
BombTakesAll ==
  pc = "decomposed" /\ ~raised /\ Len(cards) > 0 =>
    LET working == AfterTongzi(cards)
    IN /\ \A r \in RanksOf(working) :
            RankCount(working, r) >= 4 =>
              /\ Cardinality({i \in 1..Len(hand_patterns.bombs) :
                                hand_patterns.bombs[i][1].rank = r}) = 1
              /\ \E i \in 1..Len(hand_patterns.bombs) :
                   hand_patterns.bombs[i] = RankGroup(working, r)
              /\ RankCount(LowerBucketCards(hand_patterns), r) = 0
       /\ (Len(cards) = 4 /\ Cardinality(RanksOf(cards)) = 1
             /\ Cardinality({cards[i].suit : i \in 1..4}) = 4) =>
            /\ hand_patterns.bombs = <<cards>>
            /\ LowerBucketCards(hand_patterns) = <<>>
            /\ hand_patterns.trump_count = 1


\* C19: recognize, beats and decompose write none of their arguments: after
\* each call the caller's card list holds the same cards in the same order
\* and the play on the table is the same pattern; what the decomposer removes
\* it removes from its own working copy.
ArgumentsKept == [][cards' = cards /\ current_play' = current_play]_vars

\* The decomposer has emptied its working list into buckets that list the
\* cards in another order than the caller's list, and that list was not in
\* sorted order when the recognizer and the validator read it.
ArgumentsKeptWitness ==
  /\ pc = "decomposed"
  /\ ~raised
  /\ Len(cards) >= 6
  /\ analyze_patterns_run(cards).remaining = <<>>
  /\ BucketCards(hand_patterns) # cards
  /\ current_play # None


\* The card list holds a body of N >= 2 consecutive ranks lo..hi, three cards
\* of each, and among the other cards (the wings) rank w occurs three times
\* or more.
TriplesWithWingTriple(card_list, lo, hi, w) ==
  /\ hi > lo
  /\ \A r \in lo..hi : RankCount(card_list, r) >= 3
  /\ RankCount(card_list, w) - (IF w \in lo..hi THEN 3 ELSE 0) >= 3

RankPoints(r) == IF r = 5 THEN 5 ELSE IF r = 10 \/ r = 13 THEN 10 ELSE 0

\* The sum of the scoring values of a card list.
CardPoints(card_list) ==
  LET F[n \in 0..Len(card_list)] ==
        IF n = 0 THEN 0 ELSE RankPoints(card_list[n].rank) + F[n - 1]
  IN F[Len(card_list)]

\* The total of the points of the events of one player.
TotalOf(engine, player_id) ==
  LET F[n \in 0..Len(engine.scoring_events)] ==
        IF n = 0 THEN 0
        ELSE (IF engine.scoring_events[n].player_id = player_id
              THEN engine.scoring_events[n].points ELSE 0) + F[n - 1]
  IN F[Len(engine.scoring_events)]

\* C21: create_special_bonus_events called with is_round_winning_play = false
\* returns the empty list, appends nothing to scoring_events and leaves the
\* total score of every player as it was, whatever the pattern.
NoBonusUnlessRoundWinning ==
  [][(call'.op = "create_special_bonus_events" /\ ~call'.is_round_winning_play) =>
       /\ call'.returned = <<>>
       /\ state'.scoring_engine.scoring_events = state.scoring_engine.scoring_events
       /\ \A pid \in RangeOf(PlayerIds) :
            TotalOf(state'.scoring_engine, pid) = TotalOf(state.scoring_engine, pid)]_vars

\* The engine holds an event, and the last call offered it a Tongzi of K, A
\* or 2 or a Dizha that was not the round-winning play.
NoBonusUnlessRoundWinningWitness ==
  /\ call.op = "create_special_bonus_events"
  /\ ~call.is_round_winning_play
  /\ call.winning_pattern.play_type \in {TONGZI, DIZHA}
  /\ call.winning_pattern.primary_rank \in {FIVE, KING}
  /\ Len(state.scoring_engine.scoring_events) = 1
  /\ call.returned = <<>>

\* C22: create_round_win_event(player, round_cards, n) gives the player one
\* ROUND_WIN event of round n worth the sum of the scoring values of all the
\* round's cards, appended to scoring_events; when the sum is 0 it returns
\* None and scoring_events is as before.
RoundWinnerTakesAll ==
  [][call'.op = "create_round_win_event" =>
       IF CardPoints(call'.round_cards) = 0
       THEN /\ call'.returned = NoEvent
            /\ state'.scoring_engine.scoring_events = state.scoring_engine.scoring_events
       ELSE /\ call'.returned.player_id = call'.player_id
            /\ call'.returned.bonus_type = "round_win"
            /\ call'.returned.points = CardPoints(call'.round_cards)
            /\ call'.returned.round_number = call'.round_number
            /\ state'.scoring_engine.scoring_events =
                 Append(state.scoring_engine.scoring_events, call'.returned)
            /\ TotalOf(state'.scoring_engine, call'.player_id) =
                 TotalOf(state.scoring_engine, call'.player_id)
                   + CardPoints(call'.round_cards)]_vars

\* A round of two 5s, a 10, a K and a 6 gave its winner 30 points.
RoundWinnerTakesAllWitness ==
  /\ call.op = "create_round_win_event"
  /\ Len(call.round_cards) = 5
  /\ call.returned.points = 30
  /\ TotalOf(state.scoring_engine, call.player_id) >= 30



\* The players whose hand is empty.
EmptyHanded(st) == {pid \in RangeOf(st.player_ids) : Len(st.player_hands[pid]) = 0}

\* The players of the plays that emptied a hand, in the order of the plays.
EmptiedInOrder(st) ==
  LET last == SelectSeq(st.round_logs,
                        LAMBDA log : log.action = "play" /\ log.hand_size_after = 0)
  IN [i \in 1..Len(last) |-> last[i].player_id]

\* C23: in the simulator, after every completed action, a player is in
\* finished_players exactly when the player's hand is empty; finished_players
\* lists each player once, in the order in which the hands became empty; at
\* the end of the game every player who is not in it holds a card.
FinishedIffEmpty ==
  call.op \in {"none", "turn"} /\ ~call.raised /\ Len(state.player_ids) > 0 =>
    /\ RangeOf(state.finished_players) = EmptyHanded(state)
    /\ Cardinality(RangeOf(state.finished_players)) = Len(state.finished_players)
    /\ state.finished_players = EmptiedInOrder(state)
    /\ (state.game_over =>
          \A pid \in RangeOf(state.player_ids) \ RangeOf(state.finished_players) :
            Len(state.player_hands[pid]) > 0)

\* The game is over: two players emptied their hands, one after the other,
\* and the third still holds cards.
FinishedIffEmptyWitness ==
  /\ call.op = "turn"
  /\ ~call.raised
  /\ state.game_over
  /\ Len(state.finished_players) = 2
  /\ \E pid \in RangeOf(state.player_ids) : Len(state.player_hands[pid]) > 0


\* The number of cards dealt to the players: those still held and those
\* played.
CardsDealt(st) ==
  LET held == [i \in 1..Len(st.player_ids) |-> Len(st.player_hands[st.player_ids[i]])]
      H[n \in 0..Len(held)] == IF n = 0 THEN 0 ELSE held[n] + H[n - 1]
      P[n \in 0..Len(st.round_logs)] ==
        IF n = 0 THEN 0 ELSE Len(st.round_logs[n].cards_played) + P[n - 1]
  IN H[Len(held)] + P[Len(st.round_logs)]

\* C24: with the default play strategy play_full_game terminates: it reaches
\* game_over with at most one active player left, after fewer than 5 times
\* the number of cards dealt actions and fewer completed rounds than cards
\* dealt.
DefaultGameEnds ==
  /\ <>(state.game_over /\ Cardinality(RangeOf(state.player_ids)
                                         \ RangeOf(state.finished_players)) <= 1)
  /\ [](/\ ~call.raised
        /\ call.action_number < 5 * CardsDealt(state)
        /\ state.current_round - 1 < CardsDealt(state))

\* A game of nine cards is over after more than nine actions and more than
\* three rounds.
DefaultGameEndsWitness ==
  /\ state.game_over
  /\ CardsDealt(state) = 9
  /\ call.action_number > 9
  /\ state.current_round - 1 > 3
  /\ Len(state.finished_players) = 2


\* No action of the current round is logged yet.
FirstOfRound(st) ==
  \A i \in 1..Len(st.round_logs) : st.round_logs[i].round_number # st.current_round

\* The player who should open the next round: the last player who played if
\* that player holds cards, otherwise the next player after that one, in
\* seating order, who holds cards.
LeadOf(st) ==
  LET n == Len(st.player_ids)
      w == CHOOSE i \in 1..n : st.player_ids[i] = st.last_player_who_played
      holds(i) == Len(st.player_hands[st.player_ids[i]]) > 0
      after == {k \in 1..n : holds(((w - 1 + k) % n) + 1)}
  IN IF holds(w) THEN st.player_ids[w]
     ELSE st.player_ids[((w - 1 + (CHOOSE k \in after : \A j \in after : k <= j)) % n) + 1]

\* C25: in play_full_game, after a round ended, the first action of the next
\* round is taken by the round winner (the last player who played) if that
\* player still has cards, and otherwise by the next active player after the
\* winner in seating order.
RoundWinnerLeads ==
  [][(/\ call'.op = "turn"
      /\ call'.action_number = call.action_number + 1
      /\ state.current_round > 1
      /\ FirstOfRound(state)
      /\ state.last_player_who_played # NoPlayer)
       => call'.player_id = LeadOf(state)]_vars

\* Whether the active players other than the last player who played have all
\* passed since the last play.
OthersPassed(st) ==
  LET plays == {i \in 1..Len(st.round_logs) : st.round_logs[i].action = "play"}
      since == IF plays = {} THEN 0 ELSE CHOOSE i \in plays : \A j \in plays : j <= i
  IN \A pid \in RangeOf(st.player_ids) :
       (Len(st.player_hands[pid]) > 0 /\ pid # st.last_player_who_played) =>
         \E i \in (since + 1)..Len(st.round_logs) :
           st.round_logs[i].player_id = pid /\ st.round_logs[i].action = "pass"

\* C26: in the simulator a round in which a play was made ends only when at
\* most one active player remains or every active player other than the last
\* player who played has passed since that last play: no round ends while
\* another active player has not had a turn to respond to the best play.
RoundEndsAfterAllPassed ==
  [][(call'.op = "turn" /\ ~call'.raised
        /\ state'.current_round = state.current_round + 1
        /\ \E i \in 1..Len(state'.round_logs) :
             /\ state'.round_logs[i].round_number = state.current_round
             /\ state'.round_logs[i].action = "play")
       => \/ Cardinality({pid \in RangeOf(state'.player_ids) :
                            Len(state'.player_hands[pid]) > 0}) <= 1
          \/ OthersPassed(state')]_vars

\* Whether some cards of the hand beat the play.
HoldsBeatingPlay(hand, play) ==
  \E sub \in SubLists(hand) \ {<<>>} : can_beat_play(sub, play)

\* C27: with config.must_beat_rule set, a pass by a player whose hand holds
\* a play that beats the current best play is not accepted as a pass: it is
\* rejected, and neither logged nor counted in consecutive_passes.
MustBeatEnforced ==
  [][(/\ call'.op = "turn"
      /\ call'.action_number = call.action_number + 1
      /\ Falsy(call'.cards_to_play)
      /\ state.config.must_beat_rule
      /\ state.current_best_play # None
      /\ HoldsBeatingPlay(state.player_hands[call'.player_id], state.current_best_play))
       => /\ call'.raised
          /\ Len(state'.round_logs) = Len(state.round_logs)]_vars

\* Whether every card of a list is in the hand as often as the list has it.
HeldIn(hand, card_list) ==
  \A i \in 1..Len(card_list) : Count(card_list, card_list[i]) <= Count(hand, card_list[i])

\* C28: every PLAY that the simulator accepts is a recognized pattern that
\* beats the current best play of that moment (or opens the round), is made
\* of cards that the acting player holds, and shortens that player's hand by
\* the number of cards played; within a round current_best_play is replaced
\* only by a pattern that beats it.
AcceptedPlayBeats ==
  [][(/\ call'.op = "turn"
      /\ call'.action_number = call.action_number + 1
      /\ ~call'.raised
      /\ ~Falsy(call'.cards_to_play))
       => /\ analyze_cards(call'.cards_to_play) # None
          /\ can_beat_play(call'.cards_to_play, state.current_best_play)
          /\ state.current_best_play # None =>
               _compare_patterns(analyze_cards(call'.cards_to_play), state.current_best_play)
          /\ HeldIn(state.player_hands[call'.player_id], call'.cards_to_play)
          /\ Len(state'.player_hands[call'.player_id])
               = Len(state.player_hands[call'.player_id]) - Len(call'.cards_to_play)
          /\ state'.current_best_play \in {None, analyze_cards(call'.cards_to_play)}
          /\ \A pid \in RangeOf(state.player_ids) \ {call'.player_id} :
               state'.player_hands[pid] = state.player_hands[pid]]_vars

\* A single was played on two earlier plays of the round and became the
\* current best play.
AcceptedPlayBeatsWitness ==
  /\ call.op = "turn"
  /\ ~call.raised
  /\ Len(call.cards_to_play) = 1
  /\ Len(state.current_round_plays) = 3
  /\ state.current_best_play = analyze_cards(call.cards_to_play)
  /\ state.current_best_play.play_type = SINGLE
  /\ state.last_player_who_played = call.player_id

\* C30: when _execute_player_action raises ValueError the game state is as
\* before the call: no card has left the player's hand, and current_best_play,
\* last_player_who_played, consecutive_passes, current_round_plays, round_logs
\* and finished_players keep their values.
RaiseKeepsState ==
  [][(call'.op = "turn" /\ call'.raised) => state' = state]_vars


\* The plays a hand holds: its sub-multisets, each card as often as held at
\* most.
PlaysHeld(hand) ==
  LET held == Keys(hand)
  IN SubHands([i \in 1..Len(held) |-> <<held[i], Count(hand, held[i])>>])

\* The plays held that are of the type of the current play or trumps, and
\* that can_beat_play accepts against it.
BeatingPlaysHeld(hand, current_pattern) ==
  {p \in PlaysHeld(hand) :
     /\ analyze_cards(p).play_type \in {current_pattern.play_type} \cup TrumpTypes
     /\ can_beat_play(p, current_pattern)}

\* C29: generate_beating_plays_with_same_type_or_trump returns a non-empty
\* list whenever the hand holds a play of the current type, or a Bomb, Tongzi
\* or Dizha, that can_beat_play accepts against the current play; and against
\* a current Bomb every Bomb held of a higher rank is among the plays
\* returned, whatever its number of cards.
BeatingPlayGenerated ==
  call.op = "generate" =>
    /\ BeatingPlaysHeld(cards, current_play) # {} => Len(call.returned) > 0
    /\ current_play.play_type = BOMB =>
         \A p \in PlaysHeld(cards) :
           /\ analyze_cards(p).play_type = BOMB
           /\ analyze_cards(p).primary_rank > current_play.primary_rank
           => \E i \in 1..Len(call.returned) : SameMultiset(call.returned[i], p)

=============================================================================
